---- MODULE Spec2Model ----
(***************************************************************************)
(* Verification model of jmpren/il_budget_calc_react_v1.                   *)
(*                                                                         *)
(* SpecLedger models the BudgetCalculator component of                     *)
(* src/src/BudgetCalculator_v1.tsx: the row store (budgetData), the        *)
(* committed adjustments, the draft texts, the scenario catalog and the    *)
(* notification list, with one action per event handler.                   *)
(* SpecExplorer models DataExplorerPage of the same file: the cascading    *)
(* filters, the debounced text query and the windowed table.               *)
(* SpecAgency models src/src/BudgetCalculator_v3.tsx: the sanitized rows,  *)
(* the agency list, the agency selection and the donut mode.               *)
(* DataFooter, which it renders, is part of it.                            *)
(* Spec is the application with one of its components mounted.             *)
(* A state variable of a component holds the value its code last passed    *)
(* to the setter; `mounted` tells whether the component is still on the    *)
(* screen.  A component can be unmounted while one of its fetches is in    *)
(* flight; once it is unmounted and nothing is in flight none of its code  *)
(* runs again, so later unmounts are left out.                             *)
(*                                                                         *)
(* Conventions.                                                            *)
(*  - A JavaScript string that the code inspects character by character    *)
(*    (a draft text, a name that is searched) is a sequence of             *)
(*    one-character strings.                                               *)
(*  - Amounts are kept as the code keeps them: amountM in millions, deltas *)
(*    in dollars.  An adjusted amount is reported in dollars               *)
(*    (amountM * 1,000,000 + delta), i.e. the code's value in millions     *)
(*    multiplied by 1,000,000, so that all arithmetic stays in integers.   *)
(*  - React state objects are immutable values, but `adjustments` and a    *)
(*    scenario's `adjustments` may be the very same object (loadScenario   *)
(*    stores the scenario's object as the state).  Objects therefore live  *)
(*    in a heap and the state holds references to them.                    *)
(*  - The `created` timestamp of a scenario and the Date.now() ids of      *)
(*    notifications are wall-clock values; the model keeps the order of    *)
(*    the notifications and leaves the clock out.                          *)
(***************************************************************************)
EXTENDS Integers, Sequences, FiniteSets, TLC

VARIABLES
    budgetData,      \* useState<Row[]>            v1:69
    loading,         \* useState(true)             v1:70
    error,           \* useState<string|null>      v1:71
    adjustments,     \* reference to the committed ledger object  v1:88
    heap,            \* the ledger objects that are still referenced
    draft,           \* useState<Record<string,string>>  v1:89
    savedScenarios,  \* useState<Record<string,any>>     v1:90
    notifications,   \* useState<{id,message,type}[]>    v1:91
    lastOp,          \* history: the handler that ran last and its outcome
    savedAt,         \* history: the ledger as it was when each name was last saved
    rt,              \* history: progress through save(name); reset; load(name)
    page,            \* which component is mounted: "calculator", "agency" or "data"
    pageRows,        \* DataExplorerPage: useState<BudgetRow[]>  v1:848
    pageLoading,     \* DataExplorerPage: useState(true)         v1:849
    params,          \* useHashParams: useState(parse)           v1:828
    agency,          \* v1:853
    division,        \* v1:854
    source,          \* v1:855
    query,           \* v1:856
    q,               \* useDebounced: debounced                  v1:839
    timer,           \* useDebounced: the values of the pending timeouts, oldest first
    superseded,      \* history: a pending timeout was cleared since the last one fired
    scrollTop,       \* v1:927
    agencyRows,      \* BudgetCalculator_v3: rows                v3:52
    agencyLoading,   \* BudgetCalculator_v3: loading             v3:53
    search,          \* v3:54
    selectedAgency,  \* v3:55, <<>> for null
    donutMode,       \* v3:56
    modeBefore,      \* history: donutMode when the agency selection last changed
    lastUpdated,     \* DataFooter: useState<string | null>(null)  v1:697
    metaPending,     \* DataFooter: the fetch of budget_meta.json is in flight
    cancelled,       \* DataFooter: let cancelled                  v1:700
    mounted          \* the component is on the screen: React has not unmounted it

ledgerVars == <<budgetData, loading, error, adjustments, heap, draft,
                savedScenarios, notifications, lastOp, savedAt, rt>>

explorerVars == <<pageRows, pageLoading, params, agency, division, source,
                  query, q, timer, superseded, scrollTop>>

agencyVars == <<agencyRows, agencyLoading, search, selectedAgency, donutMode, modeBefore>>

footerVars == <<lastUpdated, metaPending, cancelled>>

vars == <<ledgerVars, explorerVars, agencyVars, footerVars, page, mounted>>

-----------------------------------------------------------------------------
(* Characters and texts *)

Digits == {"0", "1", "2", "3", "4", "5", "6", "7", "8", "9"}

DigitVal(c) ==
    CASE c = "0" -> 0 [] c = "1" -> 1 [] c = "2" -> 2 [] c = "3" -> 3
      [] c = "4" -> 4 [] c = "5" -> 5 [] c = "6" -> 6 [] c = "7" -> 7
      [] c = "8" -> 8 [] c = "9" -> 9

DigitChar(d) ==
    CASE d = 0 -> "0" [] d = 1 -> "1" [] d = 2 -> "2" [] d = 3 -> "3"
      [] d = 4 -> "4" [] d = 5 -> "5" [] d = 6 -> "6" [] d = 7 -> "7"
      [] d = 8 -> "8" [] d = 9 -> "9"

\* s.replace(/[^...]/g, ''): keep the characters of s that are in keep
KeepChars(s, keep) == SelectSeq(s, LAMBDA c : c \in keep)

AllDigits(s) == \A i \in 1..Len(s) : s[i] \in Digits

\* value of a non-empty run of decimal digits
RECURSIVE DigitsValue(_)
DigitsValue(s) ==
    IF s = <<>> THEN 0
    ELSE 10 * DigitsValue(SubSeq(s, 1, Len(s) - 1)) + DigitVal(s[Len(s)])

PointAt(s) == CHOOSE i \in 1..Len(s) : s[i] = "."

\* An unsigned StrDecimalLiteral over digits and '.': "12", "12.", "12.5", ".5"
IsUnsignedDecimal(s) ==
    /\ s # <<>>
    /\ \A i \in 1..Len(s) : s[i] \in Digits \cup {"."}
    /\ Cardinality({i \in 1..Len(s) : s[i] = "."}) <= 1
    /\ \E i \in 1..Len(s) : s[i] \in Digits

\* Number(t) for a text t over digits, '.' and '-' (what parseCurrency passes).
\* The result is a record: finite = FALSE stands for NaN.  int is the integral
\* part and frac the digits after the point (no draft text of the program
\* holds a point: see DraftsHaveNoPoint).
NumberOf(t) ==
    LET neg  == t # <<>> /\ t[1] = "-"
        body == IF neg THEN Tail(t) ELSE t
        ip   == IF "." \in {body[i] : i \in 1..Len(body)}
                THEN SubSeq(body, 1, PointAt(body) - 1) ELSE body
        fp   == IF "." \in {body[i] : i \in 1..Len(body)}
                THEN SubSeq(body, PointAt(body) + 1, Len(body)) ELSE <<>>
    IN  IF t = <<>> THEN [finite |-> TRUE, int |-> 0, frac |-> <<>>]
        ELSE IF IsUnsignedDecimal(body)
        THEN [finite |-> TRUE,
              int    |-> IF neg THEN 0 - DigitsValue(ip) ELSE DigitsValue(ip),
              frac   |-> fp]
        ELSE [finite |-> FALSE, int |-> 0, frac |-> <<>>]

\* v1:25-29
parseCurrency(s) ==
    IF s = <<>> THEN 0
    ELSE LET n == NumberOf(KeepChars(s, Digits \cup {".", "-"}))
         IN  IF n.finite THEN n.int ELSE 0

\* decimal digits of a natural number, most significant first
RECURSIVE NatDigits(_)
NatDigits(n) ==
    IF n < 10 THEN <<DigitChar(n)>>
    ELSE Append(NatDigits(n \div 10), DigitChar(n % 10))

\* en-US grouping: a comma before every group of three digits counted from the right
RECURSIVE GroupThousands(_)
GroupThousands(ds) ==
    IF Len(ds) <= 3 THEN ds
    ELSE GroupThousands(SubSeq(ds, 1, Len(ds) - 3))
            \o <<",">> \o SubSeq(ds, Len(ds) - 2, Len(ds))

\* v1:30-31  n.toLocaleString('en-US', { maximumFractionDigits:0 }) for an integer n
formatCurrencyWithCommas(n) ==
    IF n < 0 THEN <<"-">> \o GroupThousands(NatDigits(0 - n))
    ELSE GroupThousands(NatDigits(n))

\* Math.round: every number the program rounds is an integer number of dollars
MathRound(n) == n

\* a value of a JSON field: a number (an integer here), a string, or null
\* (also for a field that is absent)
Num(n) == [kind |-> "number", value |-> n]
Str(t) == [kind |-> "string", value |-> t]
Null == [kind |-> "null", value |-> 0]

\* String(v) of a number or a string
StringOf(v) ==
    IF v.kind = "string" THEN v.value
    ELSE IF v.value < 0 THEN <<"-">> \o NatDigits(0 - v.value)
    ELSE NatDigits(v.value)

\* v1:806-810, v3:19-23 (the same function); the amounts of the model have
\* no fractional part
toNumber(v) ==
    IF v.kind = "null" THEN 0
    ELSE LET n == NumberOf(KeepChars(StringOf(v), Digits \cup {".", "-"}))
         IN  IF n.finite THEN n.int ELSE 0

-----------------------------------------------------------------------------
(* Inputs of the BudgetCalculator component *)

MILLION == 1000000

NULL == "null"

Row(c, f, a, t) == [category |-> c, fund |-> f, amountM |-> a, type |-> t]

\* the dataset of the specification's worked example
DatasetExample == << Row("A", "F1", 10, "spending"), Row("A", "F2", 5, "spending") >>

\* one fund name used by three rows: in two spending categories and in revenue
DatasetMixed ==
    << Row("A", "F1", 10, "spending"), Row("B", "F1", 5, "spending"),
       Row("R", "F1", 3, "revenue") >>

\* a row that names no category
DatasetUnchecked == << Row("", "F1", 10, "spending") >>

\* what r.json() may deliver: an array of rows, an object with a rows field,
\* an object without one
Payloads ==
    { [isArray |-> TRUE,  hasRows |-> FALSE, rows |-> DatasetExample],
      [isArray |-> TRUE,  hasRows |-> FALSE, rows |-> DatasetUnchecked],
      [isArray |-> FALSE, hasRows |-> TRUE,  rows |-> DatasetMixed],
      [isArray |-> FALSE, hasRows |-> FALSE, rows |-> <<>>] }

\* what the user may type into a "Change ($)" field
RawTexts ==
    { <<"-", "3", ",", "0", "0", "0", ",", "0", "0", "0">>,
      <<"-", "2", "0", ",", "0", "0", "0", ",", "0", "0", "0">>,
      <<"-", "x">> }

\* answers of window.prompt: cancelled (null) or a text
Answer(t) == [cancelled |-> FALSE, text |-> t]
Cancelled == [cancelled |-> TRUE, text |-> ""]
Truthy(ans) == ~ans.cancelled /\ ans.text # ""

SaveNameAnswers == {Cancelled, Answer(""), Answer("A")}
LoadNameAnswers == {Cancelled, Answer("A"), Answer("Z")}
DescriptionAnswers == {Cancelled}

MaxNotes == 1

-----------------------------------------------------------------------------
(* Objects *)

EmptyObject == [k \in {} |-> 0]

Keys(o) == DOMAIN o

\* { ...o, [k]: v }
With(o, k, v) == [x \in DOMAIN o \cup {k} |-> IF x = k THEN v ELSE o[x]]

\* const n = { ...o }; delete n[k]
Without(o, k) == [x \in DOMAIN o \ {k} |-> o[x]]

\* the committed ledger: the object the adjustments state refers to
Ledger == heap[adjustments]

ScenarioRefs(sc) == {sc[n].adjustments : n \in DOMAIN sc}

\* a reference no live object uses
FreshRef(live) ==
    CHOOSE r \in 1..(Cardinality(live) + 1) :
        r \notin live /\ \A o \in 1..(r - 1) : o \in live

\* the heap after the state has been replaced: objects nothing refers to are gone
Collect(h, live) == [r \in live |-> h[r]]

\* setAdjustments(obj) for a newly created object obj
SetNewLedger(obj) ==
    LET kept == ScenarioRefs(savedScenarios)
        r    == FreshRef(kept)
    IN  /\ adjustments' = r
        /\ heap' = [o \in kept \cup {r} |-> IF o = r THEN obj ELSE heap[o]]

-----------------------------------------------------------------------------
(* Notifications  v1:103-107 *)

CanNotify == Len(notifications) < MaxNotes

notify(message, type) ==
    notifications' = Append(notifications, [message |-> message, type |-> type])

\* the setTimeout of notify removes the notification it added; timers fire in
\* the order they were set
dismissNotification ==
    /\ notifications # <<>>
    /\ notifications' = Tail(notifications)
    /\ UNCHANGED <<budgetData, loading, error, adjustments, heap, draft,
                   savedScenarios, lastOp, savedAt, rt>>

-----------------------------------------------------------------------------
(* History *)

\* rep: the handler that ran before this one was applyCalculate as well
Op(name, ok) ==
    [op |-> name, ok |-> ok, rep |-> name = "applyCalculate" /\ lastOp.op = name]

NoRoundTrip == [phase |-> "none", name |-> ""]

-----------------------------------------------------------------------------
(* Data load  v1:73-85 *)

InitLedger ==
    /\ budgetData = <<>>
    /\ loading = TRUE
    /\ error = NULL
    /\ adjustments = 1
    /\ heap = [r \in {1} |-> EmptyObject]
    /\ draft = EmptyObject
    /\ savedScenarios = EmptyObject
    /\ notifications = <<>>
    /\ lastOp = [op |-> "none", ok |-> TRUE, rep |-> FALSE]
    /\ savedAt = EmptyObject
    /\ rt = NoRoundTrip

fetchBudgetOk(payload) ==
    /\ loading
    /\ budgetData' = IF payload.isArray THEN payload.rows
                     ELSE IF payload.hasRows THEN payload.rows ELSE <<>>
    /\ loading' = FALSE
    /\ UNCHANGED <<error, adjustments, heap, draft, savedScenarios,
                   notifications, lastOp, savedAt, rt>>

\* fetch rejects, the status is not ok, or the body is not JSON
fetchBudgetFail ==
    /\ loading
    /\ error' = "Failed to load budget.json"
    /\ loading' = FALSE
    /\ UNCHANGED <<budgetData, adjustments, heap, draft, savedScenarios,
                   notifications, lastOp, savedAt, rt>>

\* the early returns of the render (v1:577-578): the page with its buttons and
\* inputs exists only once the data is loaded without error
Rendered == ~loading /\ error = NULL

\* v1:576-577: what BudgetCalculator renders
Screen == IF loading THEN "loading" ELSE IF error # NULL THEN "error" ELSE "calculator"

\* mutant: an input is rendered for a fund that no row names
InputKeys_WithStrayFund == {budgetData[i].fund : i \in 1..Len(budgetData)} \cup {"F9"}

\* the funds that have a "Change ($)" input  (v1:524-558)
InputKeys == {budgetData[i].fund : i \in 1..Len(budgetData)}

-----------------------------------------------------------------------------
(* Calculations  v1:134-170, 209-223 *)

Max(a, b) == IF a >= b THEN a ELSE b

\* adjustments[fund] || 0
DeltaOf(ledger, fund) == IF fund \in Keys(ledger) THEN ledger[fund] ELSE 0

\* mutant: the floor at zero is forgotten
adjustedFundAmountM_NoClamp(fund) ==
    fund.amountM * MILLION + DeltaOf(Ledger, fund.fund)

\* mutant: the delta, in dollars, is added to the amount, in millions, as it is
adjustedFundAmountM_NoUnitConversion(fund) ==
    Max(0, fund.amountM + DeltaOf(Ledger, fund.fund)) * MILLION

\* mutant: the delta of a fund name reaches only the first row of that name
adjustedFundAmountM_FirstRowOnly(fund) ==
    LET first == budgetData[CHOOSE i \in 1..Len(budgetData) :
                     /\ budgetData[i].fund = fund.fund
                     /\ \A j \in 1..(i - 1) : budgetData[j].fund # fund.fund]
    IN  IF fund = first THEN Max(0, fund.amountM * MILLION + DeltaOf(Ledger, fund.fund))
        ELSE fund.amountM * MILLION

\* v1:134-137, in dollars
adjustedFundAmountM(fund) ==
    Max(0, fund.amountM * MILLION + DeltaOf(Ledger, fund.fund))

RowsOfType(t) == SelectSeq(budgetData, LAMBDA r : r.type = t)

spendingRows == RowsOfType("spending")
revenueRows == RowsOfType("revenue")

\* rows.reduce((s, r) => s + f(r), 0)
RECURSIVE SumFirst(_, _)
SumFirst(xs, n) == IF n = 0 THEN 0 ELSE SumFirst(xs, n - 1) + xs[n]

\* sumM(rows, f) of v1:140, given the sequence of the f(r)
sumM(amounts) == SumFirst(amounts, Len(amounts))

\* r => r.amountM, in dollars
OriginalAmounts(rows) == [i \in 1..Len(rows) |-> rows[i].amountM * MILLION]

\* r => adjustedFundAmountM(r)
AdjustedAmounts(rows) == [i \in 1..Len(rows) |-> adjustedFundAmountM(rows[i])]

\* v1:139-155, every figure in dollars
totals ==
    LET origRevenue  == sumM(OriginalAmounts(revenueRows))
        origSpending == sumM(OriginalAmounts(spendingRows))
        adjRevenue   == sumM(AdjustedAmounts(revenueRows))
        adjSpending  == sumM(AdjustedAmounts(spendingRows))
    IN  [original |-> [revenue |-> origRevenue, spending |-> origSpending,
                       deficit |-> origRevenue - origSpending],
         adjusted |-> [revenue |-> adjRevenue, spending |-> adjSpending,
                       deficit |-> adjRevenue - adjSpending]]

\* mutant: a later row of a category replaces the category's size
ByCatAfter_Overwrites(n) ==
    [cat \in {spendingRows[i].category : i \in 1..n} |->
        adjustedFundAmountM(spendingRows[CHOOSE i \in 1..n :
            /\ spendingRows[i].category = cat
            /\ \A j \in (i + 1)..n : spendingRows[j].category # cat])]

\* the byCat accumulator of treeDataCategories after the first n spending rows
RECURSIVE ByCatAfter(_)
ByCatAfter(n) ==
    IF n = 0 THEN EmptyObject
    ELSE LET byCat == ByCatAfter(n - 1)
             r     == spendingRows[n]
         IN  With(byCat, r.category,
                  (IF r.category \in Keys(byCat) THEN byCat[r.category] ELSE 0)
                     + adjustedFundAmountM(r))

\* v1:158-164: one node per category, as the set of its {name, size} records
treeDataCategories ==
    LET byCat == ByCatAfter(Len(spendingRows))
    IN  {[name |-> cat, size |-> byCat[cat]] : cat \in Keys(byCat)}

\* v1:166-170 for selectedCategory = sel, which a click on a category node
\* sets to the node's name (v1:350-354); !selectedCategory holds for null and ''
treeDataFundsOf(sel) ==
    IF sel \in {NULL, ""} THEN <<>>
    ELSE LET funds == SelectSeq(spendingRows, LAMBDA r : r.category = sel)
         IN  [i \in 1..Len(funds) |->
                 [name |-> funds[i].fund, size |-> adjustedFundAmountM(funds[i]),
                  type |-> funds[i].type]]

\* Math.round(adjM * 100) / 100 with adjM in millions: the nearest multiple of
\* 10,000 dollars, halves rounded up
RoundToHundredthM(dollars) ==
    ((dollars + (MILLION \div 200)) \div (MILLION \div 100)) * (MILLION \div 100)

\* v1:212-223: the records exportData writes, one per row
ExportRows ==
    [i \in 1..Len(budgetData) |->
        LET item  == budgetData[i]
            delta == DeltaOf(Ledger, item.fund)
            adjM  == Max(0, item.amountM * MILLION + delta)
        IN  [category  |-> item.category,
             fund      |-> item.fund,
             originalM |-> item.amountM,
             change    |-> delta,
             adjM      |-> adjM,
             adjustedM |-> RoundToHundredthM(adjM),
             type      |-> item.type]]

-----------------------------------------------------------------------------
(* Actions of the BudgetCalculator component *)

\* v1:188-192
resetAdjustments ==
    /\ Rendered /\ CanNotify
    /\ SetNewLedger(EmptyObject)
    /\ draft' = EmptyObject
    /\ notify(<<"All adjustments cleared">>, "success")
    /\ lastOp' = Op("resetAdjustments", TRUE)
    /\ rt' = IF rt.phase = "saved" THEN [rt EXCEPT !.phase = "reset"] ELSE NoRoundTrip
    /\ UNCHANGED <<budgetData, loading, error, savedScenarios, savedAt>>

\* v1:194-200.  nameAns and descAns are the answers to the two prompts; the
\* prompts are only asked when the ledger is not empty.
saveScenario(nameAns, descAns) ==
    /\ Rendered
    /\ IF Keys(Ledger) = {}
       THEN /\ CanNotify
            /\ notify(<<"No adjustments to save">>, "error")
            /\ lastOp' = Op("saveEmptyLedger", FALSE)
            /\ rt' = NoRoundTrip
            /\ UNCHANGED <<adjustments, heap, savedScenarios, savedAt>>
       ELSE IF ~Truthy(nameAns)
       THEN /\ lastOp' = Op("saveBlankName", FALSE)
            /\ rt' = NoRoundTrip
            /\ UNCHANGED <<adjustments, heap, savedScenarios, savedAt, notifications>>
       ELSE LET name        == nameAns.text
                description == IF Truthy(descAns) THEN descAns.text ELSE ""
                others      == ScenarioRefs(Without(savedScenarios, name))
                copy        == FreshRef(others \cup {adjustments})
            IN  /\ CanNotify
                /\ heap' = [o \in others \cup {adjustments, copy} |->
                               IF o = copy THEN [k \in Keys(Ledger) |-> Ledger[k]]
                               ELSE heap[o]]
                /\ savedScenarios' =
                       With(savedScenarios, name,
                            [adjustments |-> copy, description |-> description])
                /\ notify(<<"Scenario \"", name, "\" saved">>, "success")
                /\ lastOp' = Op("saveScenario", TRUE)
                /\ rt' = [phase |-> "saved", name |-> name]
                /\ savedAt' = With(savedAt, name, Ledger)
                /\ UNCHANGED adjustments
    /\ UNCHANGED <<budgetData, loading, error, draft>>

\* the draft text loadScenario regenerates for a delta v:
\* formatCurrencyWithCommas(Math.round(Number(v)||0))
RegeneratedText(v) == formatCurrencyWithCommas(MathRound(v))

\* mutant: only the deltas that are not zero are restored
loadScenario_NonZeroOnly(name) ==
    IF name \notin Keys(savedScenarios)
    THEN /\ lastOp' = Op("loadUnknown", FALSE)
         /\ rt' = NoRoundTrip
         /\ UNCHANGED <<adjustments, heap, draft, notifications>>
    ELSE LET snapshot == heap[savedScenarios[name].adjustments]
             restored == [k \in {x \in Keys(snapshot) : snapshot[x] # 0} |-> snapshot[k]]
         IN  /\ CanNotify
             /\ SetNewLedger(restored)
             /\ draft' = [k \in Keys(restored) |-> RegeneratedText(restored[k])]
             /\ notify(<<"Loaded scenario: ", name>>, "success")
             /\ lastOp' = Op("loadScenario", TRUE)
             /\ rt' = IF rt.phase = "reset" /\ rt.name = name
                      THEN [rt EXCEPT !.phase = "loaded"] ELSE NoRoundTrip

\* mutant: the regenerated texts are merged into the drafts that exist
loadScenario_KeepsDraft(name) ==
    IF name \notin Keys(savedScenarios)
    THEN /\ lastOp' = Op("loadUnknown", FALSE)
         /\ rt' = NoRoundTrip
         /\ UNCHANGED <<adjustments, heap, draft, notifications>>
    ELSE LET s == savedScenarios[name]
         IN  /\ CanNotify
             /\ adjustments' = s.adjustments
             /\ heap' = Collect(heap, ScenarioRefs(savedScenarios))
             /\ draft' = [k \in Keys(draft) \cup Keys(heap[s.adjustments]) |->
                             IF k \in Keys(heap[s.adjustments])
                             THEN RegeneratedText(heap[s.adjustments][k])
                             ELSE draft[k]]
             /\ notify(<<"Loaded scenario: ", name>>, "success")
             /\ lastOp' = Op("loadScenario", TRUE)
             /\ rt' = IF rt.phase = "reset" /\ rt.name = name
                      THEN [rt EXCEPT !.phase = "loaded"] ELSE NoRoundTrip

\* v1:202-207.  The state becomes the scenario's own adjustments object.
loadScenario(name) ==
    IF name \notin Keys(savedScenarios)
    THEN /\ lastOp' = Op("loadUnknown", FALSE)
         /\ rt' = NoRoundTrip
         /\ UNCHANGED <<adjustments, heap, draft, notifications>>
    ELSE LET s == savedScenarios[name]
         IN  /\ CanNotify
             /\ adjustments' = s.adjustments
             /\ heap' = Collect(heap, ScenarioRefs(savedScenarios))
             /\ draft' = [k \in Keys(heap[s.adjustments]) |->
                             RegeneratedText(heap[s.adjustments][k])]
             /\ notify(<<"Loaded scenario: ", name>>, "success")
             /\ lastOp' = Op("loadScenario", TRUE)
             /\ rt' = IF rt.phase = "reset" /\ rt.name = name
                      THEN [rt EXCEPT !.phase = "loaded"] ELSE NoRoundTrip

\* v1:614-620: the Load button.  ans is the answer to its prompt, which is only
\* asked when the catalog is not empty.
loadButtonClick(ans) ==
    /\ Rendered
    /\ IF Keys(savedScenarios) = {}
       THEN /\ CanNotify
            /\ notify(<<"No saved scenarios yet">>, "info")
            /\ lastOp' = Op("loadEmptyCatalog", FALSE)
            /\ rt' = NoRoundTrip
            /\ UNCHANGED <<adjustments, heap, draft>>
       ELSE IF Truthy(ans) /\ ans.text \in Keys(savedScenarios)
       THEN loadScenario(ans.text)
       ELSE /\ lastOp' = Op("loadUnknown", FALSE)
            /\ rt' = NoRoundTrip
            /\ UNCHANGED <<adjustments, heap, draft, notifications>>
    /\ UNCHANGED <<budgetData, loading, error, savedScenarios, savedAt>>

\* mutant: the test for an empty ledger is missing
exportData_NoEmptyCheck ==
    /\ Rendered /\ CanNotify
    /\ notify(<<"Scenario exported">>, "success")
    /\ lastOp' = Op("exportData", Keys(Ledger) # {})
    /\ rt' = NoRoundTrip
    /\ UNCHANGED <<budgetData, loading, error, adjustments, heap, draft,
                   savedScenarios, savedAt>>

\* v1:209-236.  The CSV built from ExportRows is handed to the browser as a
\* download; the component's state changes only by the notification.
exportData ==
    /\ Rendered /\ CanNotify
    /\ IF Keys(Ledger) = {}
       THEN /\ notify(<<"No adjustments to export">>, "error")
            /\ lastOp' = Op("exportData", FALSE)
       ELSE /\ notify(<<"Scenario exported">>, "success")
            /\ lastOp' = Op("exportData", TRUE)
    /\ rt' = NoRoundTrip
    /\ UNCHANGED <<budgetData, loading, error, adjustments, heap, draft,
                   savedScenarios, savedAt>>

\* v1:239-242
onDraftChange(fund, value) ==
    /\ Rendered
    /\ LET cleaned == KeepChars(value, Digits \cup {",", "-"})
       IN  draft' = With(draft, fund, cleaned)
    /\ lastOp' = Op("onDraftChange", TRUE)
    /\ rt' = NoRoundTrip
    /\ UNCHANGED <<budgetData, loading, error, adjustments, heap,
                   savedScenarios, notifications, savedAt>>

\* v1:528: the text the input of key shows
deltaText(key) ==
    IF key \in Keys(draft) THEN draft[key]
    ELSE IF DeltaOf(Ledger, key) # 0
         THEN formatCurrencyWithCommas(MathRound(Ledger[key]))
         ELSE <<>>

\* v1:554-558: the input of key loses the focus
onDraftBlur(key) ==
    /\ Rendered
    /\ LET v      == parseCurrency(deltaText(key))
           pretty == IF v # 0 THEN formatCurrencyWithCommas(MathRound(v)) ELSE <<>>
       IN  draft' = With(draft, key, pretty)
    /\ lastOp' = Op("onDraftBlur", TRUE)
    /\ rt' = NoRoundTrip
    /\ UNCHANGED <<budgetData, loading, error, adjustments, heap,
                   savedScenarios, notifications, savedAt>>

\* mutant: a draft is added to the committed delta instead of replacing it
CommittedLedger_Accumulates(ledger, d) ==
    [k \in Keys(ledger) \cup Keys(d) |->
        IF k \in Keys(d) THEN DeltaOf(ledger, k) + parseCurrency(d[k]) ELSE ledger[k]]

\* mutant: the committed ledger is built from the drafts alone
CommittedLedger_DraftedOnly(ledger, d) == [k \in Keys(d) |-> parseCurrency(d[k])]

\* the object applyCalculate builds: { ...adjustments } with every draft entry
\* parsed and written over it  (v1:246-250; parseCurrency is always finite)
CommittedLedger(ledger, d) ==
    [k \in Keys(ledger) \cup Keys(d) |->
        IF k \in Keys(d) THEN parseCurrency(d[k]) ELSE ledger[k]]

\* v1:245-253
applyCalculate ==
    /\ Rendered /\ CanNotify
    /\ SetNewLedger(CommittedLedger(Ledger, draft))
    /\ notify(<<"Adjustments applied">>, "success")
    /\ lastOp' = Op("applyCalculate", TRUE)
    /\ rt' = NoRoundTrip
    /\ UNCHANGED <<budgetData, loading, error, draft, savedScenarios, savedAt>>

\* mutant: the key is deleted from the state object itself, not from a copy
removeAdjustment_InPlace(fund) ==
    /\ Rendered
    /\ heap' = [heap EXCEPT ![adjustments] = Without(Ledger, fund)]
    /\ adjustments' = adjustments
    /\ draft' = Without(draft, fund)
    /\ lastOp' = Op("removeAdjustment", TRUE)
    /\ rt' = NoRoundTrip
    /\ UNCHANGED <<budgetData, loading, error, savedScenarios, notifications, savedAt>>

\* mutant: the draft of the removed key stays
removeAdjustment_LedgerOnly(fund) ==
    /\ Rendered
    /\ SetNewLedger(Without(Ledger, fund))
    /\ lastOp' = Op("removeAdjustment", TRUE)
    /\ rt' = NoRoundTrip
    /\ UNCHANGED <<budgetData, loading, error, draft, savedScenarios, notifications, savedAt>>

\* v1:256-263, reached from the X button of a listed adjustment (v1:454-468)
removeAdjustment(fund) ==
    /\ Rendered
    /\ SetNewLedger(Without(Ledger, fund))
    /\ draft' = Without(draft, fund)
    /\ lastOp' = Op("removeAdjustment", TRUE)
    /\ rt' = NoRoundTrip
    /\ UNCHANGED <<budgetData, loading, error, savedScenarios, notifications, savedAt>>

\* a step of the mounted BudgetCalculator: the other components do not exist
OnCalculator(A) ==
    /\ page = "calculator"
    /\ mounted
    /\ A
    /\ UNCHANGED <<explorerVars, agencyVars, footerVars, page, mounted>>

\* a step of the code of BudgetCalculator that does not need the component
\* on the screen: the continuation of the fetch  (v1:74-84)
InCalculator(A) ==
    /\ page = "calculator"
    /\ A
    /\ UNCHANGED <<explorerVars, agencyVars, footerVars, page, mounted>>

\* React unmounts BudgetCalculator while its fetch is in flight; the effect
\* v1:73-85 returns no cleanup
unmountCalculator ==
    /\ page = "calculator"
    /\ mounted
    /\ loading
    /\ mounted' = FALSE
    /\ UNCHANGED <<ledgerVars, explorerVars, agencyVars, footerVars, page>>

NextLedger ==
    \/ \E payload \in Payloads : InCalculator(fetchBudgetOk(payload))
    \/ InCalculator(fetchBudgetFail)
    \/ unmountCalculator
    \/ OnCalculator(dismissNotification)
    \/ OnCalculator(resetAdjustments)
    \/ \E nameAns \in SaveNameAnswers, descAns \in DescriptionAnswers :
          OnCalculator(saveScenario(nameAns, descAns))
    \/ \E ans \in LoadNameAnswers : OnCalculator(loadButtonClick(ans))
    \/ OnCalculator(exportData)
    \/ \E fund \in InputKeys, value \in RawTexts : OnCalculator(onDraftChange(fund, value))
    \/ \E key \in InputKeys : OnCalculator(onDraftBlur(key))
    \/ OnCalculator(applyCalculate)
    \/ \E fund \in Keys(Ledger) : OnCalculator(removeAdjustment(fund))

-----------------------------------------------------------------------------
(* DataExplorerPage: texts *)

\* String.prototype.toLowerCase on one character
ToLowerChar(c) ==
    CASE c = "A" -> "a" [] c = "B" -> "b" [] c = "C" -> "c" [] c = "D" -> "d"
      [] c = "E" -> "e" [] c = "F" -> "f" [] c = "G" -> "g" [] c = "H" -> "h"
      [] c = "I" -> "i" [] c = "J" -> "j" [] c = "K" -> "k" [] c = "L" -> "l"
      [] c = "M" -> "m" [] c = "N" -> "n" [] c = "O" -> "o" [] c = "P" -> "p"
      [] c = "Q" -> "q" [] c = "R" -> "r" [] c = "S" -> "s" [] c = "T" -> "t"
      [] c = "U" -> "u" [] c = "V" -> "v" [] c = "W" -> "w" [] c = "X" -> "x"
      [] c = "Y" -> "y" [] c = "Z" -> "z" [] OTHER -> c

toLowerCase(t) == [i \in 1..Len(t) |-> ToLowerChar(t[i])]

\* String.prototype.trim: leading and trailing blanks removed
RECURSIVE trim(_)
trim(t) ==
    IF t = <<>> THEN t
    ELSE IF t[1] = " " THEN trim(Tail(t))
    ELSE IF t[Len(t)] = " " THEN trim(SubSeq(t, 1, Len(t) - 1))
    ELSE t

\* String.prototype.includes
includes(hay, needle) ==
    \E i \in 0..(Len(hay) - Len(needle)) : SubSeq(hay, i + 1, i + Len(needle)) = needle

-----------------------------------------------------------------------------
(* DataExplorerPage: inputs *)

ROW_H == 36
viewportH == 560
Overscan == 10

\* number of rows of the long dataset
NRowsPage == 30

\* the distance between the scroll offsets that are tried
ScrollStep == 130

DOT == <<"D", "O", "T">>
DX == <<"D", "X">>
Road == <<"R", "o", "a", "d">>
Rail == <<"R", "a", "i", "l">>
Adm == <<"A", "d", "m">>
Fed == <<"F", "e", "d">>
Gen == <<"G", "e", "n">>
Ops == <<"O", "p", "s">>

BudgetRow(a, d, s, ap, n) ==
    [agency |-> a, division |-> d, source |-> s, appropriation |-> ap, amount |-> Num(n)]

\* a long table: every tenth row belongs to DX, the others to DOT
LongRowAt(i) ==
    LET a == IF i % 10 = 0 THEN DX ELSE DOT
    IN  BudgetRow(a,
                  IF a = DX THEN Adm ELSE IF i % 2 = 1 THEN Road ELSE Rail,
                  IF i % 3 = 0 THEN Fed ELSE Gen,
                  IF i % 5 = 1 THEN Ops ELSE <<>>,
                  i)

LongTable == [i \in 1..NRowsPage |-> LongRowAt(i)]

\* a short table with a row that has no division, a row that has no agency,
\* an amount written as a text and an agency name that needs trimming
ShortTable ==
    << BudgetRow(DOT, Road, Gen, <<>>, 7), BudgetRow(DOT, <<>>, Gen, <<>>, 100),
       BudgetRow(<<>>, Adm, Fed, <<>>, 50),
       [BudgetRow(<<" ", "D", "X">>, Adm, Fed, Ops, 0) EXCEPT !.amount = Str(<<"$", "4">>)] >>

\* the rows r.json() may deliver
PagePayloads == {LongTable, ShortTable}

\* what the user may type into the search box
QueryTexts == {<<>>, <<"r", "o">>, <<" ", "F", "E", "D">>, <<"z">>}

HashParams(a, d, s, t) == [agency |-> a, division |-> d, source |-> s, q |-> t]

\* the parameters the location hash may carry (v1:817-827)
HashParamSets ==
    { HashParams(<<>>, <<>>, <<>>, <<>>),
      HashParams(DX, Adm, <<>>, <<>>),
      HashParams(DOT, <<>>, Fed, <<"r", "o">>) }

NoTimer == <<>>
Timer(v) == <<v>>

-----------------------------------------------------------------------------
(* DataExplorerPage: derived values  v1:889-934 *)

\* v1:890-896
normalized ==
    [i \in 1..Len(pageRows) |->
        [agency        |-> pageRows[i].agency,
         division      |-> pageRows[i].division,
         source        |-> pageRows[i].source,
         appropriation |-> pageRows[i].appropriation,
         amount        |-> pageRows[i].amount,
         agency_l      |-> toLowerCase(pageRows[i].agency),
         division_l    |-> toLowerCase(pageRows[i].division),
         source_l      |-> toLowerCase(pageRows[i].source),
         appr_l        |-> toLowerCase(pageRows[i].appropriation)]]

\* v1:898
agencies == {normalized[i].agency : i \in 1..Len(normalized)}

\* mutant: the divisions of every agency are on offer
divisions_OfAllAgencies == {normalized[i].division : i \in 1..Len(normalized)}

\* v1:899-903
divisions ==
    {normalized[i].division : i \in {j \in 1..Len(normalized) :
        agency = <<>> \/ normalized[j].agency = agency}}

\* v1:904-908
sources ==
    {normalized[i].source : i \in {j \in 1..Len(normalized) :
        /\ agency = <<>> \/ normalized[j].agency = agency
        /\ division = <<>> \/ normalized[j].division = division}}

\* the characters of the texts, in the order of their UTF-16 code units
CodeOrder ==
    << " ", "0", "1", "2", "3", "4", "5", "6", "7", "8", "9",
       "A", "B", "C", "D", "E", "F", "G", "H", "I", "J", "K", "L", "M",
       "N", "O", "P", "Q", "R", "S", "T", "U", "V", "W", "X", "Y", "Z",
       "a", "b", "c", "d", "e", "f", "g", "h", "i", "j", "k", "l", "m",
       "n", "o", "p", "q", "r", "s", "t", "u", "v", "w", "x", "y", "z" >>

CharCode(c) == CHOOSE i \in 1..Len(CodeOrder) : CodeOrder[i] = c

\* t1 < t2 as Array.prototype.sort() without a comparator orders strings
RECURSIVE TextLess(_, _)
TextLess(t1, t2) ==
    IF t2 = <<>> THEN FALSE
    ELSE IF t1 = <<>> THEN TRUE
    ELSE IF t1[1] # t2[1] THEN CharCode(t1[1]) < CharCode(t2[1])
    ELSE TextLess(Tail(t1), Tail(t2))

\* Array.from(set).sort()
RECURSIVE sortTexts(_)
sortTexts(set) ==
    IF set = {} THEN <<>>
    ELSE LET least == CHOOSE t \in set : \A u \in set \ {t} : TextLess(t, u)
         IN  <<least>> \o sortTexts(set \ {least})

\* the options of the three selects (v1:955, v1:965, v1:973)
agencyOptions == sortTexts(agencies)
divisionOptions == sortTexts(divisions)
sourceOptions == sortTexts(sources)

\* mutant: a row of the selected agency is kept without looking at the other
\* filters or at the query
FilterKeeps_AgencyShortCut(r, a, d, s, dq) ==
    LET ql == toLowerCase(trim(dq))
    IN  IF a # <<>> /\ r.agency = a THEN TRUE
        ELSE IF a # <<>> THEN FALSE
        ELSE IF d # <<>> /\ r.division # d THEN FALSE
        ELSE IF s # <<>> /\ r.source # s THEN FALSE
        ELSE IF ql = <<>> THEN TRUE
        ELSE \/ includes(r.agency_l, ql) \/ includes(r.division_l, ql)
             \/ includes(r.source_l, ql) \/ includes(r.appr_l, ql)

\* mutant: the query is compared as typed, without lower-casing it
FilterKeeps_CaseSensitive(r, a, d, s, dq) ==
    LET ql == trim(dq)
    IN  IF a # <<>> /\ r.agency # a THEN FALSE
        ELSE IF d # <<>> /\ r.division # d THEN FALSE
        ELSE IF s # <<>> /\ r.source # s THEN FALSE
        ELSE IF ql = <<>> THEN TRUE
        ELSE \/ includes(r.agency_l, ql) \/ includes(r.division_l, ql)
             \/ includes(r.source_l, ql) \/ includes(r.appr_l, ql)

\* v1:913-919: the callback of normalized.filter for the filters a, d, s and
\* the debounced query dq
FilterKeeps(r, a, d, s, dq) ==
    LET ql == toLowerCase(trim(dq))
    IN  IF a # <<>> /\ r.agency # a THEN FALSE
        ELSE IF d # <<>> /\ r.division # d THEN FALSE
        ELSE IF s # <<>> /\ r.source # s THEN FALSE
        ELSE IF ql = <<>> THEN TRUE
        ELSE \/ includes(r.agency_l, ql) \/ includes(r.division_l, ql)
             \/ includes(r.source_l, ql) \/ includes(r.appr_l, ql)

\* the indices of the rows the filters keep
FilteredIndices(a, d, s, dq) ==
    {i \in 1..Len(normalized) : FilterKeeps(normalized[i], a, d, s, dq)}

\* v1:911-920
filtered == SelectSeq(normalized, LAMBDA r : FilterKeeps(r, agency, division, source, q))

\* v1:922
total == SumFirst([i \in 1..Len(filtered) |-> filtered[i].amount], Len(filtered))

Min(a, b) == IF a <= b THEN a ELSE b

\* Math.ceil(a / b) for a >= 0, b > 0
CeilDiv(a, b) == (a + b - 1) \div b

\* v1:930
start == Max(0, (scrollTop \div ROW_H) - Overscan)

\* v1:931
end == Min(Len(filtered), CeilDiv(scrollTop + viewportH, ROW_H) + Overscan)

\* v1:932: Array.prototype.slice(start, end)
slice ==
    LET from == Min(start, Len(filtered))
        to   == Min(end, Len(filtered))
    IN  IF from >= to THEN <<>> ELSE SubSeq(filtered, from + 1, to)

\* v1:933
padTop == start * ROW_H

\* v1:934
padBottom == Max(0, (Len(filtered) - end) * ROW_H)

\* the height of what the viewport holds (v1:996-1010), every materialized row
\* being ROW_H high
contentHeight == padTop + Len(slice) * ROW_H + padBottom

\* the largest scrollTop the browser allows for this content
maxScrollTop == Max(0, contentHeight - viewportH)

\* the offsets tried: the multiples of ScrollStep and the end of the range
ScrollOffsets(limit) ==
    {limit} \cup {k * ScrollStep : k \in {j \in 0..(limit \div ScrollStep) : TRUE}}

-----------------------------------------------------------------------------
(* DataExplorerPage: actions *)

\* the page shows its inputs and its table  (v1:937)
PageRendered == ~pageLoading

\* useDebounced's effect (v1:840-843) after the value changed from old to new:
\* mutant: the pending timeout is cleared and no new one is set
Rescheduled_NoRestart(old, new) == IF new = old THEN timer ELSE NoTimer

\* mutant: the timeout that is pending is left to fire, a new one is queued
Rescheduled_NoCancel(old, new) == IF new = old THEN timer ELSE Append(timer, new)

\* the cleanup clears the timeout the effect had set, if it is still pending,
\* and a new one is set
Rescheduled(old, new) == IF new = old THEN timer ELSE Timer(new)

\* whether that cleanup cleared a timeout that was still pending
Superseding(old, new) == IF new = old THEN superseded ELSE superseded \/ timer # NoTimer

\* the state after the first render with the hash parameters p
InitExplorer(p) ==
    /\ pageRows = <<>>
    /\ pageLoading = TRUE
    /\ params = p
    /\ agency = params.agency
    /\ division = params.division
    /\ source = <<>>
    /\ query = params.q
    /\ q = params.q
    /\ timer = Timer(params.q)
    /\ superseded = FALSE
    /\ scrollTop = 0

\* v1:873-879
MappedPageRows(raw) ==
    [i \in 1..Len(raw) |->
        [agency        |-> trim(raw[i].agency),
         division      |-> trim(raw[i].division),
         source        |-> trim(raw[i].source),
         appropriation |-> trim(raw[i].appropriation),
         amount        |-> toNumber(raw[i].amount)]]

\* v1:868-887, the fetch succeeds
fetchRowsOk(raw) ==
    /\ pageLoading
    /\ pageRows' = SelectSeq(MappedPageRows(raw),
                             LAMBDA r : r.agency # <<>> /\ r.division # <<>>)
    /\ pageLoading' = FALSE
    /\ UNCHANGED <<params, agency, division, source, query, q, timer, superseded, scrollTop>>

\* v1:868-887, the fetch fails: there is no catch, only the finally
fetchRowsFail ==
    /\ pageLoading
    /\ pageLoading' = FALSE
    /\ UNCHANGED <<pageRows, params, agency, division, source, query, q, timer, superseded, scrollTop>>

\* v1:829-833 and the effect v1:861-866 that follows the new params
hashChange(p) ==
    /\ p # params
    /\ params' = p
    /\ IF <<p.agency, p.division, p.q>> # <<params.agency, params.division, params.q>>
       THEN /\ agency' = p.agency
            /\ division' = p.division
            /\ query' = p.q
            /\ timer' = Rescheduled(query, p.q)
            /\ superseded' = Superseding(query, p.q)
       ELSE UNCHANGED <<agency, division, query, timer, superseded>>
    /\ UNCHANGED <<pageRows, pageLoading, source, q, scrollTop>>

\* v1:945
onQueryChange(text) ==
    /\ PageRendered
    /\ text # query
    /\ query' = text
    /\ timer' = Rescheduled(query, text)
    /\ superseded' = Superseding(query, text)
    /\ UNCHANGED <<pageRows, pageLoading, params, agency, division, source, q, scrollTop>>

\* v1:841: the timeout of useDebounced fires
debounceFire ==
    /\ timer # NoTimer
    /\ q' = Head(timer)
    /\ timer' = Tail(timer)
    /\ superseded' = FALSE
    /\ UNCHANGED <<pageRows, pageLoading, params, agency, division, source, query, scrollTop>>

\* v1:951
onAgencyChange(value) ==
    /\ PageRendered
    /\ value # agency
    /\ agency' = value
    /\ division' = <<>>
    /\ UNCHANGED <<pageRows, pageLoading, params, source, query, q, timer, superseded, scrollTop>>

\* v1:959; the select is disabled while no agency is chosen (v1:961)
onDivisionChange(value) ==
    /\ PageRendered
    /\ agency # <<>>
    /\ value # division
    /\ division' = value
    /\ UNCHANGED <<pageRows, pageLoading, params, agency, source, query, q, timer, superseded, scrollTop>>

\* v1:969
onSourceChange(value) ==
    /\ PageRendered
    /\ value # source
    /\ source' = value
    /\ UNCHANGED <<pageRows, pageLoading, params, agency, division, query, q, timer, superseded, scrollTop>>

\* v1:928: the viewport was scrolled (by the user, or by the browser when the
\* content became shorter than the offset) to the offset s
onScroll(s) ==
    /\ PageRendered
    /\ s # scrollTop
    /\ scrollTop' = s
    /\ UNCHANGED <<pageRows, pageLoading, params, agency, division, source, query, q, timer, superseded>>

\* v1:937-939: what DataExplorerPage renders; there is no other early return
PageScreen == IF pageLoading THEN "loading" ELSE "table"

\* a step of the mounted DataExplorerPage
OnDataPage(A) ==
    /\ page = "data"
    /\ mounted
    /\ A
    /\ UNCHANGED <<ledgerVars, agencyVars, footerVars, page, mounted>>

\* a step of the code of DataExplorerPage that does not need the page on the
\* screen: the continuation of the fetch  (v1:869-886)
InDataPage(A) ==
    /\ page = "data"
    /\ A
    /\ UNCHANGED <<ledgerVars, agencyVars, footerVars, page, mounted>>

\* React unmounts DataExplorerPage while its fetch is in flight: the cleanups
\* remove the hashchange listener (v1:832) and clear the pending timeout
\* (v1:842); the effect v1:868-887 returns no cleanup
unmountDataPage ==
    /\ page = "data"
    /\ mounted
    /\ pageLoading
    /\ mounted' = FALSE
    /\ timer' = NoTimer
    /\ superseded' = (superseded \/ timer # NoTimer)
    /\ UNCHANGED <<pageRows, pageLoading, params, agency, division, source, query, q, scrollTop>>
    /\ UNCHANGED <<ledgerVars, agencyVars, footerVars, page>>

NextExplorer ==
    \/ \E raw \in PagePayloads : InDataPage(fetchRowsOk(raw))
    \/ InDataPage(fetchRowsFail)
    \/ unmountDataPage
    \/ \E p \in HashParamSets : OnDataPage(hashChange(p))
    \/ \E text \in QueryTexts : OnDataPage(onQueryChange(text))
    \/ OnDataPage(debounceFire)
    \/ \E value \in agencies \cup {<<>>} : OnDataPage(onAgencyChange(value))
    \/ \E value \in divisions \cup {<<>>} : OnDataPage(onDivisionChange(value))
    \/ \E value \in sources \cup {<<>>} : OnDataPage(onSourceChange(value))
    \/ \E s \in ScrollOffsets(maxScrollTop) : OnDataPage(onScroll(s))

-----------------------------------------------------------------------------
(* BudgetCalculator_v3: inputs *)

TotalWord == <<"T", "o", "t", "a", "l">>
AgencyTotal == <<"A", "g", "c", "y", " ", "t", "o", "t", "a", "l", "s">>
PaddedDX == <<" ", "D", "X">>

RawRow(a, d, s, n) == [agency |-> a, division |-> d, source |-> s, amount |-> Num(n)]

\* a payload with a duplicated detail row, total rows, a row without agency
\* and an agency name that needs trimming
AgencyTable ==
    << RawRow(DOT, Road, Gen, 10), RawRow(DX, Adm, Fed, 4), RawRow(DOT, Road, Gen, 5),
       RawRow(DOT, Rail, Fed, 7), RawRow(DOT, TotalWord, <<>>, 22),
       RawRow(<<>>, Adm, Fed, 9), RawRow(PaddedDX, Adm, Gen, 20),
       RawRow(DX, AgencyTotal, <<>>, 24), RawRow(DX, <<>>, Gen, 1) >>

\* a payload whose amounts are all zero
ZeroTable == << RawRow(DX, Adm, Fed, 0), RawRow(DOT, Road, Gen, 0) >>

\* a payload in which two agencies share a division and their sources rank
\* differently, with a row that names no source, amounts that cancel, an
\* amount written as a text, one that is no number and one that is absent
SharedTable ==
    << RawRow(DOT, Road, Gen, 9), RawRow(DOT, Adm, Fed, 3), RawRow(DX, Adm, Fed, 8),
       [RawRow(DX, Rail, Gen, 0) EXCEPT !.amount = Str(<<"$", "2">>)],
       RawRow(DX, Road, <<>>, 1),
       RawRow(Adm, Ops, Gen, 6), RawRow(Adm, Road, Fed, 0 - 6),
       [RawRow(DX, Ops, Gen, 0) EXCEPT !.amount = Str(<<"n", "/", "a">>)],
       [RawRow(DX, Ops, Fed, 0) EXCEPT !.amount = Null] >>

AgencyPayloads == {AgencyTable, ZeroTable, SharedTable}

\* what the user may type into the agency search box
SearchTexts == {<<>>, <<" ">>, <<"d", "o">>, <<"X", " ">>, <<"q">>}

DonutModes == {"division", "source"}

\* selectedAgency = null; no agency has the empty name (v3:96)
NoAgency == <<>>

-----------------------------------------------------------------------------
(* BudgetCalculator_v3: load and aggregations *)

\* v3:25-26
includesCI(haystack, needle) == includes(toLowerCase(haystack), toLowerCase(trim(needle)))

\* the maximal runs of non-blank characters of d
RECURSIVE WordsOf(_)
WordsOf(d) ==
    IF d = <<>> THEN <<>>
    ELSE IF d[1] = " " THEN WordsOf(Tail(d))
    ELSE LET stop == IF \E i \in 1..Len(d) : d[i] = " "
                     THEN (CHOOSE i \in 1..Len(d) :
                              d[i] = " " /\ \A j \in 1..(i - 1) : d[j] # " ") - 1
                     ELSE Len(d)
         IN  <<SubSeq(d, 1, stop)>> \o WordsOf(SubSeq(d, stop + 1, Len(d)))

\* v3:41-46: /(^|\s)total(s)?(\s|$)/ finds a whole word "total" or "totals"
isLikelyTotalRow(d) ==
    LET dl == toLowerCase(trim(d))
    IN  IF dl = <<>> THEN TRUE
        ELSE \E i \in 1..Len(WordsOf(dl)) :
                WordsOf(dl)[i] \in {toLowerCase(TotalWord), toLowerCase(TotalWord) \o <<"s">>}

\* v3:90-95
MappedRows(payload) ==
    [i \in 1..Len(payload) |->
        [agency   |-> trim(payload[i].agency),
         division |-> trim(payload[i].division),
         source   |-> trim(payload[i].source),
         amount   |-> toNumber(payload[i].amount)]]

\* v3:98
detailOnly(raw) == SelectSeq(raw, LAMBDA r : r.agency # <<>> /\ ~isLikelyTotalRow(r.division))

SameKey(r1, r2) ==
    r1.agency = r2.agency /\ r1.division = r2.division /\ r1.source = r2.source

\* v3:101-107: the values of agg, in insertion order, after the first n rows
RECURSIVE AggAfter(_, _)
AggAfter(detail, n) ==
    IF n = 0 THEN <<>>
    ELSE LET agg == AggAfter(detail, n - 1)
             r   == detail[n]
         IN  IF \E i \in 1..Len(agg) : SameKey(agg[i], r)
             THEN [i \in 1..Len(agg) |->
                      IF SameKey(agg[i], r)
                      THEN [agg[i] EXCEPT !.amount = @ + toNumber(Num(r.amount))]
                      ELSE agg[i]]
             ELSE Append(agg, r)

\* v3:125
totalState ==
    SumFirst([i \in 1..Len(agencyRows) |-> toNumber(Num(agencyRows[i].amount))], Len(agencyRows))

\* mutant: a later row of an agency replaces the agency's total
AgencyMapAfter_Overwrites(n) ==
    [a \in {agencyRows[i].agency : i \in 1..n} |->
        toNumber(Num(agencyRows[CHOOSE i \in 1..n :
            agencyRows[i].agency = a /\ \A j \in (i + 1)..n : agencyRows[j].agency # a].amount))]

\* v3:128-129: the map after the first n rows
RECURSIVE AgencyMapAfter(_)
AgencyMapAfter(n) ==
    IF n = 0 THEN EmptyObject
    ELSE LET map == AgencyMapAfter(n - 1)
             r   == agencyRows[n]
         IN  With(map, r.agency,
                  (IF r.agency \in Keys(map) THEN map[r.agency] ELSE 0) + toNumber(Num(r.amount)))

\* the agencies in the order their first rows appear: the order of map.entries()
RECURSIVE FirstSeen(_)
FirstSeen(n) ==
    IF n = 0 THEN <<>>
    ELSE LET seen == FirstSeen(n - 1)
         IN  IF \E i \in 1..Len(seen) : seen[i] = agencyRows[n].agency
             THEN seen ELSE Append(seen, agencyRows[n].agency)

\* Array.prototype.sort((a, b) => b.total - a.total): stable, largest first
RECURSIVE SortByTotal(_)
SortByTotal(list) ==
    IF list = <<>> THEN <<>>
    ELSE LET first == CHOOSE i \in 1..Len(list) :
                          /\ \A j \in 1..Len(list) : list[j].total <= list[i].total
                          /\ \A j \in 1..(i - 1) : list[j].total < list[i].total
         IN  <<list[first]>> \o
             SortByTotal(SubSeq(list, 1, first - 1) \o SubSeq(list, first + 1, Len(list)))

\* v3:127-133
agenciesList ==
    LET map   == AgencyMapAfter(Len(agencyRows))
        order == FirstSeen(Len(agencyRows))
    IN  SortByTotal([i \in 1..Len(order) |-> [agency |-> order[i], total |-> map[order[i]]]])

\* v3:135-138
filteredAgencies ==
    IF trim(search) = <<>> THEN agenciesList
    ELSE SelectSeq(agenciesList, LAMBDA a : includesCI(a.agency, search))

\* v3:144
UnspecifiedDivision == <<"(", "U", "n", "s", "p", "e", "c", "i", "f", "i", "e", "d", " ", "D", "i", "v", "i", "s", "i", "o", "n", ")">>

\* v3:158
UnspecifiedSource == <<"(", "U", "n", "s", "p", "e", "c", "i", "f", "i", "e", "d", " ", "S", "o", "u", "r", "c", "e", ")">>

\* v3:28-32: the palette has twelve colours, named here by their positions
NColors == 12

\* v3:33, for the zero-based index i
colorByIndex(i) == i % NColors

\* v3:143, v3:157: the rows of the agency sel, in row order
RowsOfAgency(sel) == SelectSeq(agencyRows, LAMBDA r : r.agency = sel)

\* mutant: a later row of a key replaces the key's total
KeyedMapAfter_Overwrites(entries, n) ==
    [k \in {entries[i].key : i \in 1..n} |->
        toNumber(Num(entries[CHOOSE i \in 1..n :
            entries[i].key = k /\ \A j \in (i + 1)..n : entries[j].key # k].amount))]

\* v3:145, v3:159: the map after the first n of the (key, amount) entries
RECURSIVE KeyedMapAfter(_, _)
KeyedMapAfter(entries, n) ==
    IF n = 0 THEN EmptyObject
    ELSE LET map == KeyedMapAfter(entries, n - 1)
             e   == entries[n]
         IN  With(map, e.key, (IF e.key \in Keys(map) THEN map[e.key] ELSE 0) + toNumber(Num(e.amount)))

\* the keys in the order their first entries appear: the order of map.entries()
RECURSIVE KeysSeen(_, _)
KeysSeen(entries, n) ==
    IF n = 0 THEN <<>>
    ELSE LET seen == KeysSeen(entries, n - 1)
         IN  IF \E i \in 1..Len(seen) : seen[i] = entries[n].key
             THEN seen ELSE Append(seen, entries[n].key)

\* v3:148-150, v3:162-164: the entries of the map, largest total first
KeyedTotals(entries) ==
    LET map   == KeyedMapAfter(entries, Len(entries))
        order == KeysSeen(entries, Len(entries))
    IN  SortByTotal([i \in 1..Len(order) |-> [name |-> order[i], total |-> map[order[i]]]])

\* v3:140-152 for selectedAgency = sel; the field division is called name here
divisionsOf(sel) ==
    IF sel = NoAgency THEN <<>>
    ELSE LET rs == RowsOfAgency(sel)
         IN  KeyedTotals([i \in 1..Len(rs) |->
                 [key    |-> IF rs[i].division # <<>> THEN rs[i].division
                             ELSE UnspecifiedDivision,
                  amount |-> rs[i].amount]])

\* v3:154-166 for selectedAgency = sel; the field source is called name here
sourcesInAgencyOf(sel) ==
    IF sel = NoAgency THEN <<>>
    ELSE LET rs == RowsOfAgency(sel)
         IN  KeyedTotals([i \in 1..Len(rs) |->
                 [key    |-> IF rs[i].source # <<>> THEN rs[i].source
                             ELSE UnspecifiedSource,
                  amount |-> rs[i].amount]])

\* v3:168 for selectedAgency = sel
agencyTotalOf(sel) ==
    IF sel # NoAgency
    THEN LET ds == divisionsOf(sel)
         IN  SumFirst([i \in 1..Len(ds) |-> ds[i].total], Len(ds))
    ELSE 0

\* the quotient n / d of two numbers, kept as a fraction; a fraction with
\* den = 0 stands for the NaN or Infinity of a division by zero
Quotient(n, d) == [num |-> n, den |-> d]

\* the number 0
Zero == Quotient(0, 1)

\* mutant: the share is computed without looking at the whole
Share_Unguarded(part, whole) == Quotient(part, whole)

\* v3:176, v3:177: agencyTotal ? d.total / agencyTotal : 0
Share(part, whole) == IF whole # 0 THEN Quotient(part, whole) ELSE Zero

\* v3:170
agencyPctOfState ==
    IF totalState # 0 THEN Quotient(agencyTotalOf(selectedAgency) * 100, totalState) ELSE Zero

\* v3:173-179 for selectedAgency = sel and donutMode = mode
donutDataOf(sel, mode) ==
    IF sel = NoAgency THEN <<>>
    ELSE LET list == IF mode = "division" THEN divisionsOf(sel) ELSE sourcesInAgencyOf(sel)
         IN  [i \in 1..Len(list) |->
                 [name   |-> IF list[i].name # <<>> THEN list[i].name
                             ELSE IF mode = "division" THEN UnspecifiedDivision
                             ELSE UnspecifiedSource,
                  amount |-> list[i].total,
                  color  |-> colorByIndex(i - 1),
                  pct    |-> Share(list[i].total, agencyTotalOf(sel))]]

\* v3:173-179
donutData == donutDataOf(selectedAgency, donutMode)

-----------------------------------------------------------------------------
(* BudgetCalculator_v3: actions *)

\* v3:181
AgencyRendered == ~agencyLoading

\* v3:181-183: what BudgetCalculator_v3 renders; there is no other early return
AgencyScreen == IF agencyLoading THEN "loading" ELSE "dashboard"

\* what budget_meta.json may hold: an object with lastUpdated, one without
Metas == {[lastUpdated |-> "2025-06-30"], [lastUpdated |-> NULL]}

\* v3:413, v1:699-713: the first render after the load (v3:181) mounts
\* DataFooter, whose effect starts the fetch of budget_meta.json; an
\* unmounted BudgetCalculator_v3 renders nothing
FooterMounts ==
    /\ metaPending' = mounted
    /\ UNCHANGED <<lastUpdated, cancelled>>

InitAgency ==
    /\ agencyRows = <<>>
    /\ agencyLoading = TRUE
    /\ search = <<>>
    /\ selectedAgency = NoAgency
    /\ donutMode = "division"
    /\ modeBefore = "none"
    /\ lastUpdated = NULL
    /\ metaPending = FALSE
    /\ cancelled = FALSE

\* v3:84-117, the fetch succeeds
loadRowsOk(payload) ==
    /\ agencyLoading
    /\ agencyRows' = LET detail == detailOnly(MappedRows(payload))
                     IN  AggAfter(detail, Len(detail))
    /\ agencyLoading' = FALSE
    /\ FooterMounts
    /\ UNCHANGED <<search, selectedAgency, donutMode, modeBefore>>

\* v3:84-117, the fetch or the parse throws
loadRowsFail ==
    /\ agencyLoading
    /\ agencyRows' = <<>>
    /\ agencyLoading' = FALSE
    /\ FooterMounts
    /\ UNCHANGED <<search, selectedAgency, donutMode, modeBefore>>

\* v3:319
onSearchChange(text) ==
    /\ AgencyRendered
    /\ text # search
    /\ search' = text
    /\ UNCHANGED <<agencyRows, agencyLoading, selectedAgency, donutMode, modeBefore>>

\* mutant: the effect that follows a changed selectedAgency is missing
selectAgency_KeepsMode(name) ==
    /\ AgencyRendered
    /\ selectedAgency' = name
    /\ donutMode' = donutMode
    /\ modeBefore' = IF name # selectedAgency THEN donutMode ELSE "none"
    /\ UNCHANGED <<agencyRows, agencyLoading, search>>

\* v3:339 and the effect v3:119-122 that follows a changed selectedAgency
selectAgency(name) ==
    /\ AgencyRendered
    /\ selectedAgency' = name
    /\ donutMode' = IF name # selectedAgency /\ name # NoAgency THEN "division" ELSE donutMode
    /\ modeBefore' = IF name # selectedAgency THEN donutMode ELSE "none"
    /\ UNCHANGED <<agencyRows, agencyLoading, search>>

\* v3:240; the donut card is there only while an agency is selected (v3:215)
clearAgency ==
    /\ AgencyRendered
    /\ selectedAgency # NoAgency
    /\ selectedAgency' = NoAgency
    /\ modeBefore' = "none"
    /\ UNCHANGED <<agencyRows, agencyLoading, search, donutMode>>

\* v3:228, v3:234
chooseDonutMode(mode) ==
    /\ AgencyRendered
    /\ selectedAgency # NoAgency
    /\ donutMode' = mode
    /\ modeBefore' = "none"
    /\ UNCHANGED <<agencyRows, agencyLoading, search, selectedAgency>>

\* a step of the mounted BudgetCalculator_v3
OnAgencyView(A) ==
    /\ page = "agency"
    /\ mounted
    /\ A
    /\ UNCHANGED <<ledgerVars, explorerVars, footerVars, page, mounted>>

\* a step of the code of BudgetCalculator_v3 that does not need the component
\* on the screen: the continuation of the fetch  (v3:85-115)
InAgencyView(A) ==
    /\ page = "agency"
    /\ A
    /\ UNCHANGED <<ledgerVars, explorerVars, page, mounted>>

\* v1:703-707: the fetch of budget_meta.json succeeds
metaOk(meta) ==
    /\ metaPending
    /\ metaPending' = FALSE
    /\ lastUpdated' = IF ~cancelled /\ meta.lastUpdated # NULL
                      THEN meta.lastUpdated ELSE lastUpdated
    /\ UNCHANGED cancelled

\* v1:708-710: the fetch fails, the status is not ok or the body is not JSON
metaFail ==
    /\ metaPending
    /\ metaPending' = FALSE
    /\ UNCHANGED <<lastUpdated, cancelled>>

\* a step of the code of DataFooter
InFooter(A) ==
    /\ page = "agency"
    /\ A
    /\ UNCHANGED <<ledgerVars, explorerVars, agencyVars, page, mounted>>

\* React unmounts BudgetCalculator_v3 while a fetch is in flight: the effect
\* v3:84-117 returns no cleanup; the cleanup of DataFooter, if it is mounted,
\* sets cancelled  (v1:712)
unmountAgencyView ==
    /\ page = "agency"
    /\ mounted
    /\ agencyLoading \/ metaPending
    /\ mounted' = FALSE
    /\ cancelled' = IF AgencyRendered THEN TRUE ELSE cancelled
    /\ UNCHANGED <<lastUpdated, metaPending>>
    /\ UNCHANGED <<ledgerVars, explorerVars, agencyVars, page>>

NextAgency ==
    \/ \E payload \in AgencyPayloads : InAgencyView(loadRowsOk(payload))
    \/ InAgencyView(loadRowsFail)
    \/ \E meta \in Metas : InFooter(metaOk(meta))
    \/ InFooter(metaFail)
    \/ unmountAgencyView
    \/ \E text \in SearchTexts : OnAgencyView(onSearchChange(text))
    \/ \E i \in 1..Len(filteredAgencies) : OnAgencyView(selectAgency(filteredAgencies[i].agency))
    \/ OnAgencyView(clearAgency)
    \/ \E mode \in DonutModes : OnAgencyView(chooseDonutMode(mode))

-----------------------------------------------------------------------------
(* Specifications *)

\* the application with the component p mounted
InitMounted(p) ==
    /\ page = p
    /\ mounted = TRUE
    /\ InitLedger
    /\ \E h \in (IF p = "data" THEN HashParamSets ELSE {HashParams(<<>>, <<>>, <<>>, <<>>)}) :
          InitExplorer(h)
    /\ InitAgency

SpecLedger == InitMounted("calculator") /\ [][NextLedger]_vars

SpecExplorer == InitMounted("data") /\ [][NextExplorer]_vars

\* a timeout that stays pending fires: the browser runs the callback of
\* setTimeout once its delay has passed  (v1:841)
SpecExplorerLive == SpecExplorer /\ WF_vars(OnDataPage(debounceFire))

SpecAgency == InitMounted("agency") /\ [][NextAgency]_vars

Next == NextLedger \/ NextExplorer \/ NextAgency

Init == \E p \in {"calculator", "agency", "data"} : InitMounted(p)

Spec == Init /\ [][Next]_vars



-----------------------------------------------------------------------------
(* Properties of the BudgetCalculator component *)

\* no draft text holds a decimal point, so every committed delta is an integer
DraftsHaveNoPoint ==
    \A k \in Keys(draft) : \A i \in 1..Len(draft[k]) : draft[k][i] # "."

\* a step taken by the handler that leaves the tag op in lastOp (the timer of a
\* notification is the only step that shortens the notification list)
HandlerStep(ops) ==
    /\ lastOp'.op \in ops
    /\ Len(notifications') >= Len(notifications)

\* the step appended one notification of the given type
Notified(type) ==
    /\ Len(notifications') = Len(notifications) + 1
    /\ SubSeq(notifications', 1, Len(notifications)) = notifications
    /\ notifications'[Len(notifications')].type = type

\* the contents of the scenario catalog
Catalog ==
    [n \in Keys(savedScenarios) |->
        [adjustments |-> heap[savedScenarios[n].adjustments],
         description |-> savedScenarios[n].description]]

\* C1: in every reachable state, for every row, the adjusted amount used by the
\* aggregation (adjustedFundAmountM, and through it the totals and the category
\* nodes) and the one exportData computes equal max(0, amountM + delta/1,000,000)
\* with delta the committed value of the row's fund (0 if absent); none is negative.
C1_AdjustedAmountClamped ==
    /\ \A i \in 1..Len(budgetData) :
          LET r     == budgetData[i]
              delta == IF r.fund \in DOMAIN Ledger THEN Ledger[r.fund] ELSE 0
              exact == r.amountM * MILLION + delta
              want  == IF exact < 0 THEN 0 ELSE exact
          IN  /\ adjustedFundAmountM(r) = want
              /\ ExportRows[i].adjM = want
              /\ ExportRows[i].change = delta
              /\ ExportRows[i].adjustedM >= 0
    /\ \A node \in treeDataCategories : node.size >= 0
    /\ totals.adjusted.revenue >= 0 /\ totals.adjusted.spending >= 0

\* C1 witness: a row of 5 (millions) carries a committed delta of -20,000,000,
\* is read as 0, and exportData has just written it
C1_Witness ==
    /\ lastOp.op = "exportData" /\ lastOp.ok
    /\ \E i \in 1..Len(budgetData) :
          /\ budgetData[i].amountM = 5
          /\ budgetData[i].fund \in Keys(Ledger)
          /\ Ledger[budgetData[i].fund] = 0 - 20 * MILLION
          /\ adjustedFundAmountM(budgetData[i]) = 0
          /\ ExportRows[i].adjM = 0

\* C2: after saveScenario under a name, then resetAdjustments, then loadScenario
\* of that name, the ledger has exactly the keys and deltas it had at the save
\* (and that ledger was not empty).
C2_SaveResetLoadRestores ==
    rt.phase = "loaded" =>
        /\ rt.name \in Keys(savedAt)
        /\ Ledger = savedAt[rt.name]
        /\ Keys(Ledger) # {}

\* C2 witness: the three handlers have run in this order and restored a ledger
\* with two keys
C2_Witness ==
    /\ rt.phase = "loaded"
    /\ lastOp.op = "loadScenario"
    /\ Cardinality(Keys(Ledger)) = 2

\* C3: the snapshot stored under a name equals the ledger as it was when that
\* name was last saved, whatever handlers ran since.
C3_SnapshotUnchanged ==
    /\ Keys(savedScenarios) = Keys(savedAt)
    /\ \A n \in Keys(savedScenarios) :
          heap[savedScenarios[n].adjustments] = savedAt[n]

\* C3 witness: a scenario was loaded (only loadScenario writes the draft text
\* "0"), an adjustment was then removed, and the ledger now differs from the
\* snapshot
C3_Witness ==
    /\ "A" \in Keys(savedScenarios)
    /\ lastOp.op = "removeAdjustment"
    /\ \E k \in Keys(draft) : draft[k] = <<"0">>
    /\ Ledger # heap[savedScenarios["A"].adjustments]

\* C6: a second applyCalculate directly after a first one, the drafts being the
\* same, leaves the committed ledger as the first one left it.
C6_CommitIdempotent ==
    [][(HandlerStep({"applyCalculate"}) /\ lastOp.op = "applyCalculate" /\ draft' = draft)
          => heap'[adjustments'] = heap[adjustments]]_vars

\* C6 witness: applyCalculate has run twice in a row on drafts that commit a
\* non-zero delta
C6_Witness ==
    /\ lastOp.op = "applyCalculate" /\ lastOp.rep
    /\ \E k \in Keys(draft) : parseCurrency(draft[k]) # 0 /\ Ledger[k] = parseCurrency(draft[k])

\* C8: saveScenario with an empty ledger, and saveScenario with a blank name,
\* both leave the scenario catalog unchanged and both add an error notification.
C8_SaveFailureReported ==
    [][HandlerStep({"saveEmptyLedger", "saveBlankName"})
          => (Catalog' = Catalog /\ Notified("error"))]_vars

\* C9: save with an empty ledger, export with an empty ledger and load of a name
\* that is not in the catalog each add a notification and leave the ledger, the
\* drafts and the catalog unchanged.
C9_InvalidOperationReported ==
    [][(\/ HandlerStep({"saveEmptyLedger", "loadUnknown"})
        \/ (HandlerStep({"exportData"}) /\ ~lastOp'.ok))
          => /\ Ledger' = Ledger /\ draft' = draft /\ Catalog' = Catalog
             /\ Len(notifications') = Len(notifications) + 1]_vars

\* C9 as amended: save with an empty ledger and export with an empty ledger each
\* add an error notification, the Load button with an empty catalog adds an info
\* notification, a name that is not in a non-empty catalog (or a cancelled
\* prompt) is ignored without any notification; each of these leaves the
\* ledger, the drafts and the catalog unchanged.
C9_InvalidOperationAmended ==
    [][/\ (\/ HandlerStep({"saveEmptyLedger", "loadUnknown", "loadEmptyCatalog"})
           \/ (HandlerStep({"exportData"}) /\ ~lastOp'.ok))
             => Ledger' = Ledger /\ draft' = draft /\ Catalog' = Catalog
       /\ (\/ HandlerStep({"saveEmptyLedger"})
           \/ (HandlerStep({"exportData"}) /\ ~lastOp'.ok)) => Notified("error")
       /\ HandlerStep({"loadEmptyCatalog"}) => Notified("info")
       /\ HandlerStep({"loadUnknown"}) => notifications' = notifications]_vars

\* C9 witness: a name that is not in the non-empty catalog was given to the Load
\* button while adjustments and drafts existed, and nothing is shown
C9_Witness ==
    /\ lastOp.op = "loadUnknown"
    /\ Keys(savedScenarios) # {}
    /\ Keys(Ledger) # {} /\ Keys(draft) # {}
    /\ notifications = <<>>

\* the text, without a leading minus sign, is digits in groups of three
\* separated by commas, the leading group having one to three digits
IsGrouped(t) ==
    LET u == IF t # <<>> /\ t[1] = "-" THEN Tail(t) ELSE t
    IN  /\ u # <<>>
        /\ \A i \in 1..Len(u) :
              LET fromRight == Len(u) - i + 1
              IN  IF fromRight % 4 = 0 THEN u[i] = "," ELSE u[i] \in Digits
        /\ u[1] # ","

\* C10: right after loadScenario of a known name, the ledger is that scenario's
\* snapshot, the drafts have exactly the restored keys, every draft is the
\* delta written as an integer with grouping separators, and parsing it gives
\* the delta back.
C10_LoadRegeneratesDrafts ==
    (lastOp.op = "loadScenario" /\ lastOp.ok) =>
        /\ \E n \in Keys(savedScenarios) :
              /\ adjustments = savedScenarios[n].adjustments
              /\ Ledger = savedAt[n]
        /\ Keys(draft) = Keys(Ledger)
        /\ \A k \in Keys(draft) :
              /\ IsGrouped(draft[k])
              /\ parseCurrency(draft[k]) = MathRound(Ledger[k])

\* C10 witness: a scenario holding -20,000,000 and 0 was loaded
C10_Witness ==
    /\ lastOp.op = "loadScenario" /\ lastOp.ok
    /\ \E k \in Keys(Ledger) :
          /\ Ledger[k] = 0 - 20 * MILLION
          /\ draft[k] = <<"-", "2", "0", ",", "0", "0", "0", ",", "0", "0", "0">>
    /\ \E k \in Keys(Ledger) : Ledger[k] = 0 /\ draft[k] = <<"0">>

-----------------------------------------------------------------------------
(* Grouped totals *)

\* the sum of the size fields of a set of nodes
RECURSIVE SumOfSizes(_)
SumOfSizes(nodes) ==
    IF nodes = {} THEN 0
    ELSE LET n == CHOOSE n \in nodes : TRUE
         IN  n.size + SumOfSizes(nodes \ {n})

\* C4: the category sizes of the treemap add up to the adjusted spending total
\* of the same rows whatever the ledger holds, and the agency totals of the
\* agency list add up to the state total.
C4_GroupTotalsSumToTotal ==
    /\ page = "calculator" /\ Rendered =>
          SumOfSizes(treeDataCategories) = totals.adjusted.spending
    /\ page = "agency" /\ AgencyRendered =>
          SumFirst([i \in 1..Len(agenciesList) |-> agenciesList[i].total],
                   Len(agenciesList)) = totalState

\* a category holding two funds, one of them adjusted, is on the treemap
C4_Witness ==
    /\ page = "calculator" /\ Rendered
    /\ \E node \in treeDataCategories :
          /\ Cardinality({i \in 1..Len(spendingRows) :
                             spendingRows[i].category = node.name}) > 1
          /\ node.size > 0
    /\ totals.adjusted.spending # totals.original.spending

\* an agency with several consolidated rows is on the agency list
C4_WitnessAgencies ==
    /\ page = "agency" /\ AgencyRendered
    /\ Len(agenciesList) > 1
    /\ Len(agencyRows) > Len(agenciesList)
    /\ totalState > 0

-----------------------------------------------------------------------------
(* The windowed table *)

\* C5: the top padding, the materialized rows and the bottom padding together
\* are as high as the whole filtered list, whatever the scroll offset and the
\* filtered length.
C5_WindowCoversList ==
    PageRendered => padTop + Len(slice) * ROW_H + padBottom = Len(filtered) * ROW_H

\* C7: for the loaded rows, the debounced query and the filters in force,
\* setting one more of the agency, division and source filters, the others as
\* they are, keeps a subset of the rows that are kept now.
C7_FilterMonotone ==
    LET now == FilteredIndices(agency, division, source, q)
    IN  /\ agency = <<>> =>
              \A a \in agencies : FilteredIndices(a, division, source, q) \subseteq now
        /\ division = <<>> =>
              \A d \in divisions : FilteredIndices(agency, d, source, q) \subseteq now
        /\ source = <<>> =>
              \A s \in sources : FilteredIndices(agency, division, s, q) \subseteq now

\* a query that matches rows is in force, no source is chosen, and one of the
\* sources on offer would remove some of the rows that are kept, not all
C7_Witness ==
    /\ PageRendered
    /\ trim(q) # <<>>
    /\ agency # <<>>
    /\ source = <<>>
    /\ \E s \in sources :
          LET fewer == FilteredIndices(agency, division, s, q)
          IN  fewer # {} /\ Cardinality(fewer) < Len(filtered)

-----------------------------------------------------------------------------
(* Frame conditions of the draft and ledger handlers *)

\* the object o without the keys outside ks
Restrict(o, ks) == [k \in Keys(o) \cap ks |-> o[k]]

\* a text with no digit in it
HasNoDigit(t) == \A i \in 1..Len(t) : t[i] \notin Digits

\* what applyCalculate builds from the ledger and from any part of the drafts:
\* the keys left out of the drafts keep their committed values
CommitKeepsUndrafted ==
    \A ks \in SUBSET Keys(draft) :
        LET next == CommittedLedger(Ledger, Restrict(draft, ks))
        IN  /\ Keys(next) = Keys(Ledger) \cup ks
            /\ \A k \in Keys(Ledger) \ ks : next[k] = Ledger[k]
            /\ \A k \in ks : next[k] = parseCurrency(draft[k])

\* the effect of one applyCalculate step
CommitStep ==
    /\ Keys(heap'[adjustments']) = Keys(Ledger) \cup Keys(draft)
    /\ \A k \in Keys(draft) :
          /\ heap'[adjustments'][k] = parseCurrency(draft[k])
          /\ HasNoDigit(draft[k]) => heap'[adjustments'][k] = 0
          /\ draft[k] = <<"-", "3", ",", "0", "0", "0", ",", "0", "0", "0">>
                => heap'[adjustments'][k] = 0 - 3 * MILLION
    /\ \A k \in Keys(Ledger) \ Keys(draft) : heap'[adjustments'][k] = Ledger[k]
    /\ draft' = draft
    /\ Notified("success")

\* C11: applyCalculate writes the parsed delta of every draft text into the
\* ledger, overwriting what was there (an empty text or one that is no number
\* gives 0 and no error is raised), keeps the committed value of every key
\* that has no draft, and leaves the drafts as they are.
C11_CommitWritesDrafts ==
    /\ []CommitKeepsUndrafted
    /\ [][HandlerStep({"applyCalculate"}) => CommitStep]_vars

\* C11 witness: applyCalculate has just committed the draft "-" of a fund as 0
\* over the -3,000,000 saved earlier for it, next to another fund's delta
C11_Witness ==
    /\ lastOp.op = "applyCalculate"
    /\ \E k \in Keys(draft) :
          /\ draft[k] = <<"-">>
          /\ Ledger[k] = 0
          /\ \E n \in Keys(savedAt) : k \in Keys(savedAt[n]) /\ savedAt[n][k] = 0 - 3 * MILLION
          /\ \E k2 \in Keys(Ledger) \ {k} : Ledger[k2] # 0

\* C12: onDraftChange stores the text it is given, exactly as given, under the
\* key, changes no other draft, and leaves the committed ledger (and so the
\* adjusted totals) as they are.
C12_DraftStoredVerbatim ==
    [][HandlerStep({"onDraftChange"}) =>
          /\ \E fund \in InputKeys, value \in RawTexts : draft' = With(draft, fund, value)
          /\ heap'[adjustments'] = Ledger]_vars

\* o2 is o without the key, every other entry as it was
IsWithout(o2, o, key) ==
    /\ Keys(o2) = Keys(o) \ {key}
    /\ \A k \in Keys(o2) : o2[k] = o[k]

\* what the two updaters of removeAdjustment return for a key the object does
\* not hold: an object equal to the one they were given
RemoveAbsentKeyNoOp ==
    /\ \A k \in InputKeys \ Keys(Ledger) : Without(Ledger, k) = Ledger
    /\ \A k \in InputKeys \ Keys(draft) : Without(draft, k) = draft

\* C13: removeAdjustment deletes its key from the committed ledger and from the
\* drafts, changes no other delta or draft, leaves the scenario catalog alone,
\* reports nothing, and for a key an object does not hold gives the object back.
C13_RemoveDeletesKey ==
    /\ []RemoveAbsentKeyNoOp
    /\ [][HandlerStep({"removeAdjustment"}) =>
             /\ \E fund \in Keys(Ledger) :
                   /\ IsWithout(heap'[adjustments'], Ledger, fund)
                   /\ IsWithout(draft', draft, fund)
             /\ Catalog' = Catalog
             /\ notifications' = notifications]_vars

\* C13 witness: an adjustment has just been removed while another fund keeps
\* its delta and its draft, a scenario is stored, and the removed fund is in
\* neither ledger any more
C13_Witness ==
    /\ lastOp.op = "removeAdjustment"
    /\ Keys(savedScenarios) # {}
    /\ \E k \in Keys(Ledger) : Ledger[k] # 0 /\ k \in Keys(draft)
    /\ \E k \in InputKeys : k \notin Keys(Ledger) /\ k \notin Keys(draft)

-----------------------------------------------------------------------------
(* Totals *)

\* the sum of amountM, in dollars, over the rows of budgetData of the type t
RECURSIVE RawTotal(_, _)
RawTotal(t, n) ==
    IF n = 0 THEN 0
    ELSE RawTotal(t, n - 1)
            + (IF budgetData[n].type = t THEN budgetData[n].amountM * MILLION ELSE 0)

\* the original totals are those of the raw rows
OriginalTotalsAreRaw ==
    /\ totals.original.revenue = RawTotal("revenue", Len(budgetData))
    /\ totals.original.spending = RawTotal("spending", Len(budgetData))
    /\ totals.original.deficit = totals.original.revenue - totals.original.spending
    /\ totals.adjusted.deficit = totals.adjusted.revenue - totals.adjusted.spending

\* the worked example: F1 = 10 and F2 = 5 in category A, -3,000,000 committed on F1
WorkedExample ==
    (budgetData = DatasetExample /\ Ledger = [k \in {"F1"} |-> 0 - 3 * MILLION]) =>
        /\ adjustedFundAmountM(budgetData[1]) = 7 * MILLION
        /\ adjustedFundAmountM(budgetData[2]) = 5 * MILLION
        /\ treeDataCategories = {[name |-> "A", size |-> 12 * MILLION]}
        /\ totals.adjusted.spending = 12 * MILLION
        /\ totals.original.spending = 15 * MILLION

\* C14: the original totals (revenue, spending, revenue - spending) are those
\* of the raw row amounts, which no handler changes once the rows are loaded;
\* the adjusted totals apply the committed deltas, in dollars, to the amounts,
\* in millions: in the worked example F1 becomes 7, category A 12, and the
\* original total stays 15.
C14_OriginalAndAdjustedTotals ==
    /\ [](OriginalTotalsAreRaw /\ WorkedExample)
    /\ [][~loading => budgetData' = budgetData]_vars

\* C14 witness: the worked example's rows are loaded and applyCalculate has
\* just committed -3,000,000 on F1 alone
C14_Witness ==
    /\ lastOp.op = "applyCalculate"
    /\ budgetData = DatasetExample
    /\ Ledger = [k \in {"F1"} |-> 0 - 3 * MILLION]
    /\ totals.adjusted.spending = 12 * MILLION

-----------------------------------------------------------------------------
(* The filtered rows *)

\* the row passes every categorical filter that is set, by exact match
PassesSetFilters(r) ==
    /\ agency = <<>> \/ r.agency = agency
    /\ division = <<>> \/ r.division = division
    /\ source = <<>> \/ r.source = source

\* one of the four labels of the row contains the text, whatever the case
SomeLabelContains(r, text) ==
    \E label \in {r.agency, r.division, r.source, r.appropriation} :
        includes(toLowerCase(label), toLowerCase(text))

\* the indices of the rows that pass the filters and match the text, an empty
\* text matching every row
MatchingIndices(text) ==
    {i \in 1..Len(pageRows) :
        /\ PassesSetFilters(pageRows[i])
        /\ text = <<>> \/ SomeLabelContains(pageRows[i], text)}

\* filtered holds the rows at the indices in S, in the order of the row store
\* (the row at the j-th smallest index of S is the j-th of filtered), and total
\* is the sum of their amounts
IsSubsequenceAt(S) ==
    LET f == filtered
    IN  /\ Len(f) = Cardinality(S)
        /\ \A i \in S :
              LET j == Cardinality({i2 \in S : i2 < i}) + 1
              IN  /\ j <= Len(f)
                  /\ f[j].agency = pageRows[i].agency
                  /\ f[j].division = pageRows[i].division
                  /\ f[j].source = pageRows[i].source
                  /\ f[j].appropriation = pageRows[i].appropriation
                  /\ f[j].amount = pageRows[i].amount
        /\ total = SumFirst([i \in 1..Len(pageRows) |->
                                 IF i \in S THEN pageRows[i].amount ELSE 0], Len(pageRows))
        /\ S = {} => f = <<>> /\ total = 0

\* C15: filtered is the subsequence, in row store order, of the rows that pass
\* every set filter and have a label containing the query, case-insensitively
\* (an empty query matches all rows), and total is the sum of their amounts.
C15_FilteredIsMatchingSubsequence == IsSubsequenceAt(MatchingIndices(q))

\* C15 as amended: the query is the debounced one with the white space at its
\* two ends removed; a query that is blank after that matches all rows.
C15_FilteredMatchesTrimmedQuery == IsSubsequenceAt(MatchingIndices(trim(q)))

\* C15 witness: an agency is selected and the query " FED" is in force; it
\* keeps some of the agency's rows and drops others
C15_Witness ==
    /\ PageRendered
    /\ agency = DOT
    /\ q = <<" ", "F", "E", "D">>
    /\ filtered # <<>>
    /\ Len(filtered) < Cardinality(FilteredIndices(agency, division, source, <<>>))

\* the scenario of C15: the query matches rows, none of them of the selected
\* agency, and nothing is listed
C15_WitnessNoMatch ==
    /\ PageRendered
    /\ agency = DX
    /\ q = <<"r", "o">>
    /\ FilteredIndices(<<>>, <<>>, <<>>, q) # {}
    /\ filtered = <<>> /\ total = 0

-----------------------------------------------------------------------------
(* The filter selects *)

\* C16: in every state of the rendered page a selected division is one of the
\* divisions on offer for the selected agency and a selected source is one of
\* the sources on offer for the selected agency and division, because a change
\* of a filter clears the filters that depend on it.
C16_SelectionsAreOnOffer ==
    PageRendered =>
        /\ division # <<>> => division \in divisions
        /\ source # <<>> => source \in sources

\* the values of a field among the rows at the indices in S
FieldValues(S, field) == {pageRows[i][field] : i \in S}

\* the indices of the rows that pass the filters a, d and s, an empty one
\* passing every row
RowsPassing(a, d, s) ==
    {i \in 1..Len(pageRows) :
        /\ a = <<>> \/ pageRows[i].agency = a
        /\ d = <<>> \/ pageRows[i].division = d
        /\ s = <<>> \/ pageRows[i].source = s}

\* the sequence lists the texts of the set, each once, in ascending order
IsSortedListOf(seq, set) ==
    /\ {seq[i] : i \in 1..Len(seq)} = set
    /\ \A i \in 1..(Len(seq) - 1) : TextLess(seq[i], seq[i + 1])

\* C17: each select offers the sorted distinct values of its field among the
\* rows that match every other filter that is set.
C17_OptionsFollowOtherFilters ==
    PageRendered =>
        /\ IsSortedListOf(agencyOptions,
                          FieldValues(RowsPassing(<<>>, division, source), "agency"))
        /\ IsSortedListOf(divisionOptions,
                          FieldValues(RowsPassing(agency, <<>>, source), "division"))
        /\ IsSortedListOf(sourceOptions,
                          FieldValues(RowsPassing(agency, division, <<>>), "source"))

\* C17 as amended: each select offers the sorted distinct values of its field
\* among the rows that match the filters before it in the cascade: agencies
\* among all rows, divisions among the rows of the selected agency, sources
\* among the rows of the selected agency and division.
C17_OptionsFollowUpstreamFilters ==
    PageRendered =>
        /\ IsSortedListOf(agencyOptions,
                          FieldValues(RowsPassing(<<>>, <<>>, <<>>), "agency"))
        /\ IsSortedListOf(divisionOptions,
                          FieldValues(RowsPassing(agency, <<>>, <<>>), "division"))
        /\ IsSortedListOf(sourceOptions,
                          FieldValues(RowsPassing(agency, division, <<>>), "source"))

\* C17 witness: an agency, a division and a source are selected; the agency
\* narrows the divisions on offer to two and more than one agency is on offer
C17_Witness ==
    /\ PageRendered
    /\ agency # <<>> /\ division # <<>> /\ source # <<>>
    /\ Len(agencyOptions) > 1
    /\ Len(divisionOptions) = 2
    /\ Len(divisionOptions) < Cardinality(FieldValues(1..Len(pageRows), "division"))
    /\ Len(sourceOptions) > 1

-----------------------------------------------------------------------------
(* The debounced query *)

\* at most one timeout is pending, and it carries the query as it is now
OneTimerForLatestQuery ==
    /\ Len(timer) <= 1
    /\ timer # NoTimer => Head(timer) = query

\* C18: every change of the query clears the pending timeout and sets a fresh
\* one for the new text, so at most one timeout is pending; the debounced query
\* the filter reads only ever becomes the text that is the query when the
\* timeout fires, never a text that was replaced before.
C18_DebounceRestartsTimer ==
    /\ []OneTimerForLatestQuery
    /\ [][/\ query' # query => timer' = Timer(query')
          /\ q' # q => q' = query /\ query' = query]_vars

\* C18 witness: a text was replaced while its timeout was pending; one timeout
\* is pending, for the text typed last, and the filter still reads an older one
C18_Witness ==
    /\ PageRendered
    /\ superseded
    /\ timer = Timer(query)
    /\ q # query
    /\ query # params.q

\* C19: unless the query keeps changing for ever, the debounced query ends up
\* equal to the query typed last and stays so: the table then shows the rows
\* for the final text.  (A page that is unmounted shows no table: its pending
\* timeout is cleared.)
C19_DebouncedQueryCatchesUp ==
    \/ []<><<query' # query>>_vars
    \/ <>[](q = query)
    \/ <>[]~mounted

\* C19 witness: the user typed a text, the timeout fired, and the table is
\* filtered by that text
C19_Witness ==
    /\ PageRendered
    /\ timer = NoTimer
    /\ q = query
    /\ query = <<" ", "F", "E", "D">>
    /\ filtered # <<>>
    /\ Len(filtered) < Len(pageRows)

-----------------------------------------------------------------------------
(* Scrolling *)

\* C20: a step of the rendered page that changes the filtered rows (an edit of
\* the agency, division or source filter, or a new debounced query) leaves the
\* scroll offset at 0.
C20_FilterEditResetsScroll ==
    [][(PageRendered /\ filtered' # filtered) => scrollTop' = 0]_vars

-----------------------------------------------------------------------------
(* Colours of the donut slices *)

\* the agencies that can be selected from the list
SelectableAgencies == {agencyRows[i].agency : i \in 1..Len(agencyRows)}

\* C21: in the division/source donut the same slice name is given the same
\* colour whichever agency and whichever dimension is selected, whatever
\* other slices are present and in whatever order.
C21_ColorIsFunctionOfName ==
    \A a1 \in SelectableAgencies, a2 \in SelectableAgencies :
        \A m1 \in DonutModes, m2 \in DonutModes :
            LET d1 == donutDataOf(a1, m1)
                d2 == donutDataOf(a2, m2)
            IN  \A i \in 1..Len(d1), j \in 1..Len(d2) :
                    d1[i].name = d2[j].name => d1[i].color = d2[j].color

-----------------------------------------------------------------------------
(* The donut's dimension *)

\* C22: whenever the selected agency changes to a different agency, the
\* donut shows the division breakdown once the change has taken effect,
\* whichever dimension was shown for the agency selected before.
C22_NewAgencyShowsDivisions ==
    [][(selectedAgency' # selectedAgency /\ selectedAgency' # NoAgency)
           => donutMode' = "division"]_vars

\* the funding sources of one agency were shown when another agency was selected
C22_Witness ==
    /\ modeBefore = "source"
    /\ selectedAgency # NoAgency
    /\ donutMode = "division"

-----------------------------------------------------------------------------
(* Shares of a whole *)

\* the amounts of the rows of agency sel, added up in row order
RowSum(sel) ==
    LET rs == RowsOfAgency(sel)
    IN  SumFirst([i \in 1..Len(rs) |-> rs[i].amount], Len(rs))

\* C23: the share of every division slice and of every source slice of the
\* selected agency is its total over the agency's total when that total is
\* not zero and is 0 when it is zero; the agency's share of the state total
\* is 0 when the state total is zero; nothing is ever divided by zero.
C23_SharesAreGuarded ==
    /\ \A mode \in DonutModes :
          LET data == donutDataOf(selectedAgency, mode)
          IN  \A i \in 1..Len(data) :
                  /\ data[i].pct.den # 0
                  /\ data[i].pct = IF RowSum(selectedAgency) # 0
                                   THEN [num |-> data[i].amount, den |-> RowSum(selectedAgency)]
                                   ELSE [num |-> 0, den |-> 1]
    /\ agencyPctOfState.den # 0
    /\ totalState = 0 => agencyPctOfState = [num |-> 0, den |-> 1]
    /\ totalState # 0 =>
          agencyPctOfState = [num |-> 100 * RowSum(selectedAgency), den |-> totalState]

\* an agency whose divisions cancel is selected: its slices are not zero, its total is
C23_Witness ==
    /\ selectedAgency # NoAgency
    /\ RowSum(selectedAgency) = 0
    /\ \E i \in 1..Len(donutData) : donutData[i].amount # 0

\* an agency is selected while the state total is zero
C23_WitnessZeroState ==
    /\ selectedAgency # NoAgency
    /\ totalState = 0
    /\ Len(donutData) > 0

-----------------------------------------------------------------------------
(* Loading *)

\* C24: in each of the three views a fetch that fails leaves the rows empty,
\* ends the loading state and puts the view in an error state the user sees.
C24_LoadFailureIsShown ==
    [][/\ (page = "calculator" /\ fetchBudgetFail)
            => (budgetData' = <<>> /\ ~loading' /\ Screen' = "error")
       /\ (page = "agency" /\ loadRowsFail)
            => (agencyRows' = <<>> /\ ~agencyLoading' /\ AgencyScreen' = "error")
       /\ (page = "data" /\ fetchRowsFail)
            => (pageRows' = <<>> /\ ~pageLoading' /\ PageScreen' = "error")]_vars

\* DataFooter keeps its guard: after the unmount lastUpdated is not written
FooterIgnoresLateResponse == [][~mounted => lastUpdated' = lastUpdated]_vars

\* the metadata arrived after the unmount and was dropped
FooterLateResponse == ~mounted /\ cancelled /\ ~metaPending /\ lastUpdated = NULL

\* C25: once a view is unmounted, a response to its fetch that arrives late
\* writes none of its state: rows, error, loading and lastUpdated stay as
\* they were at the unmount.
C25_LateResponseIgnored ==
    [][~mounted => UNCHANGED <<budgetData, error, loading, agencyRows, agencyLoading,
                               lastUpdated, pageRows, pageLoading>>]_vars

-----------------------------------------------------------------------------
(* Keys of the ledger *)

\* C26: every key of the committed ledger is the fund name of at least one
\* row of the row store, whatever handlers have run.
C26_LedgerKeysNameFunds ==
    \A k \in Keys(Ledger) : \E i \in 1..Len(budgetData) : budgetData[i].fund = k

\* C26 witness: a scenario was loaded whose ledger has a key for each of the
\* two funds of the rows
C26_Witness ==
    /\ lastOp.op = "loadScenario" /\ lastOp.ok
    /\ Cardinality(Keys(Ledger)) = 2
    /\ \A i \in 1..Len(budgetData) : budgetData[i].fund \in Keys(Ledger)

-----------------------------------------------------------------------------
(* Ingestion *)

\* BudgetCalculator_v3 and DataExplorerPage store only rows that name an
\* agency and a division, with the amount as a number
SanitizedRows(rows) ==
    \A i \in 1..Len(rows) :
        /\ rows[i].agency # <<>>
        /\ rows[i].division # <<>>
        /\ rows[i].amount \in Int

\* an amount that is no number and an absent amount were stored as 0, an
\* amount written as a text as its number
CoercedAmounts ==
    /\ \E i \in 1..Len(agencyRows) :
          agencyRows[i].division = Ops /\ agencyRows[i].source = Gen /\ agencyRows[i].amount = 0
    /\ \E i \in 1..Len(agencyRows) :
          agencyRows[i].division = Ops /\ agencyRows[i].source = Fed /\ agencyRows[i].amount = 0
    /\ \E i \in 1..Len(agencyRows) :
          agencyRows[i].division = Rail /\ agencyRows[i].amount = 2

\* C27: in each of the three views every stored row names its group and its
\* sub-group and has a number as amount: rows without them are dropped at
\* the load, amounts that cannot be parsed are stored as 0.
C27_StoredRowsAreSanitized ==
    /\ SanitizedRows(agencyRows)
    /\ SanitizedRows(pageRows)
    /\ \A i \in 1..Len(budgetData) :
          /\ budgetData[i].category # ""
          /\ budgetData[i].fund # ""
          /\ budgetData[i].amountM \in Int

-----------------------------------------------------------------------------
(* Rows that share a fund name *)

\* the amount of row r moved by the delta d, not below zero, in dollars
Moved(r, d) == IF r.amountM * MILLION + d >= 0 THEN r.amountM * MILLION + d ELSE 0

\* every row is moved by the delta stored under its fund name, in the adjusted
\* amounts, in the totals and in the export
EveryRowOfAFundMoves ==
    LET d(r) == IF r.fund \in Keys(Ledger) THEN Ledger[r.fund] ELSE 0
    IN  /\ \A i \in 1..Len(budgetData) :
              /\ adjustedFundAmountM(budgetData[i]) = Moved(budgetData[i], d(budgetData[i]))
              /\ ExportRows[i].change = d(budgetData[i])
              /\ ExportRows[i].adjM = Moved(budgetData[i], d(budgetData[i]))
        /\ totals.adjusted.spending =
              SumFirst([i \in 1..Len(spendingRows) |-> Moved(spendingRows[i], d(spendingRows[i]))],
                       Len(spendingRows))
        /\ totals.adjusted.revenue =
              SumFirst([i \in 1..Len(revenueRows) |-> Moved(revenueRows[i], d(revenueRows[i]))],
                       Len(revenueRows))
        /\ (budgetData = DatasetMixed /\ Keys(Ledger) = {"F1"} /\ Ledger["F1"] = 0 - 3 * MILLION)
              => /\ totals.adjusted.spending = 9 * MILLION
                 /\ totals.adjusted.revenue = 0
                 /\ treeDataCategories = {[name |-> "A", size |-> 7 * MILLION],
                                          [name |-> "B", size |-> 2 * MILLION]}

\* C28: a delta is stored under a fund name, so with several rows of that name
\* (in other categories, in revenue and spending) each of them is moved by it
\* in the adjusted amounts, the totals and the export; once the key is
\* removed every one of them is back at its original amount.
C28_DeltaAppliesToEveryRowOfFund ==
    /\ []EveryRowOfAFundMoves
    /\ [][\A k \in Keys(Ledger) \ Keys(Ledger') :
             \A i \in 1..Len(budgetData) :
                 budgetData[i].fund = k =>
                     /\ adjustedFundAmountM(budgetData[i])' = budgetData[i].amountM * MILLION
                     /\ ExportRows'[i].change = 0]_vars

\* C28 witness: three rows are named F1, two spending rows in two categories
\* and a revenue row; one commit of -3,000,000 under F1 moved all three
C28_Witness ==
    /\ budgetData = DatasetMixed
    /\ lastOp.op = "applyCalculate"
    /\ Keys(Ledger) = {"F1"} /\ Ledger["F1"] = 0 - 3 * MILLION
    /\ totals.adjusted.spending = totals.original.spending - 6 * MILLION
    /\ totals.adjusted.revenue = totals.original.revenue - 3 * MILLION

\* the key F1 was removed and the three rows are back at their amounts
C28_WitnessRemoved ==
    /\ budgetData = DatasetMixed
    /\ lastOp.op = "removeAdjustment"
    /\ Keys(Ledger) = {}
    /\ totals.adjusted = totals.original

-----------------------------------------------------------------------------
(* Drill-down *)

\* the sum of the field total of the entries of list
SumOfTotals(list) == SumFirst([i \in 1..Len(list) |-> list[i].total], Len(list))

\* in the agency view the divisions of an agency and its sources both add up
\* to the agency's total in the agency list, and the shares of the slices of
\* either dimension add up to 1 unless the agency's total is zero
AgencyDrillDownAddsUp ==
    \A i \in 1..Len(agenciesList) :
        LET a == agenciesList[i].agency
        IN  /\ SumOfTotals(divisionsOf(a)) = agenciesList[i].total
            /\ SumOfTotals(sourcesInAgencyOf(a)) = agenciesList[i].total
            /\ agenciesList[i].total # 0 =>
                  \A mode \in DonutModes :
                      LET data == donutDataOf(a, mode)
                      IN  /\ \A j \in 1..Len(data) : data[j].pct.den = agenciesList[i].total
                          /\ SumFirst([j \in 1..Len(data) |-> data[j].pct.num], Len(data))
                                = agenciesList[i].total

\* an agency with two divisions and two sources is selected
AgencyDrillDown ==
    /\ selectedAgency # NoAgency
    /\ Len(divisionsOf(selectedAgency)) = 2
    /\ Len(sourcesInAgencyOf(selectedAgency)) = 2
    /\ donutMode = "source"
    /\ agencyTotalOf(selectedAgency) = 22

\* in the treemap the funds shown for a category add up to the category's size
TreemapDrillDownAddsUp ==
    \A node \in treeDataCategories :
        LET funds == treeDataFundsOf(node.name)
        IN  SumFirst([i \in 1..Len(funds) |-> funds[i].size], Len(funds)) = node.size

\* the same for the categories that have a name
NamedCategoriesAddUp ==
    \A node \in treeDataCategories :
        node.name # "" =>
            LET funds == treeDataFundsOf(node.name)
            IN  SumFirst([i \in 1..Len(funds) |-> funds[i].size], Len(funds)) = node.size

\* C29: for any top-level group the totals of its second level add up to the
\* group's own total: divisions and sources of an agency to the agency's
\* total (and their shares to 1), the funds of a category to the category's
\* size.
C29_DrillDownAddsUp == AgencyDrillDownAddsUp /\ TreemapDrillDownAddsUp

-----------------------------------------------------------------------------
(* The materialized range *)

\* every row below N whose extent [i * H, (i + 1) * H) meets the viewport
\* [S, S + V) is in [from, to)
VisibleRowsWithin(n, from, to) ==
    \A i \in 0..(n - 1) :
        (i * ROW_H < scrollTop + viewportH /\ (i + 1) * ROW_H > scrollTop)
            => (from <= i /\ i < to)

\* the rows that meet the viewport are always materialized
C30_VisibleRowsMaterialized ==
    PageRendered => VisibleRowsWithin(Len(filtered), start, end)

\* C30: whatever scroll events and filter changes have happened, the range of
\* the materialized rows satisfies 0 <= start <= end <= N and holds every row
\* below N that meets the viewport.
C30_WindowRangeIsOrdered ==
    PageRendered =>
        LET n    == Len(filtered)
            from == start
            to   == end
        IN  /\ 0 <= from /\ from <= to /\ to <= n
            /\ VisibleRowsWithin(n, from, to)

=============================================================================
